---- MODULE Spec2Model ----
(***************************************************************************)
(* Deployment state propagation, retry classification, tfvars merging and  *)
(* Key Vault secret reconciliation of gateway_ops, as state machines.      *)
(*                                                                         *)
(*   SpecRetry    terraform_init_remote / terraform_apply under tenacity   *)
(*   SpecSeed     seed_openai_secrets against a Key Vault                  *)
(*   SpecSync     sync-env's _sync_foundry_secrets next to it              *)
(*   SpecTfvars   update_tfvars with a concurrent reader of the file       *)
(*   SpecOptional the two readers of the optional 15-foundry state         *)
(***************************************************************************)
EXTENDS Integers, Sequences, FiniteSets, TLC

VARIABLES
    \* ---- a tenacity-wrapped terraform call (_deploy_common.py)
    rpc,          \* "idle" | "call" (an attempt is about to run) | "done"
    policy,       \* "none" | "init" | "apply"
    attempt,      \* tenacity's attempt_number
    invocations,  \* how many times run_logged started the external command
    sleeps,       \* the sleeps tenacity performed, in order, in seconds
    lastExc,      \* <<e>>: the CalledProcessError of the latest failed run
    raised,       \* <<e>>: the exception the call raised to its caller
    returned,     \* TRUE once the call returned normally
    retriedMarks, \* <<m>>: the marker families in the output of the latest
                  \* failed run that tenacity retried
    \* ---- seed_openai_secrets (_openai_secrets.py)
    vault,        \* secret name -> <<>> (absent) or <<[value, source]>>
    foundry,      \* <<>> (None) or <<[names, values]>> from _load_foundry_outputs
    expected,     \* expected_secret_names
    allow,        \* allow_placeholders
    placeholder,  \* placeholder_value
    calls,        \* completed calls of seed_openai_secrets, in order
    tampered,     \* how many times somebody else wrote the vault
    synced,       \* completed runs of _sync_foundry_secrets (sync_env.py)
    \* ---- a tfvars document on disk (_deploy_common.py)
    file,         \* the content of <env>.tfvars: a sequence of lines
    old,          \* the content of the file when update_tfvars was called
    upc,          \* "idle" | "writing" | "done" | "failed"
    updates,      \* the updates argument of update_tfvars
    rendered,     \* the text _render_tfvars_local produced in this call
    pending,      \* the part of it write_text has not written yet
    observed,     \* what another process reading the path last got: <<text>>
    \* ---- ensure_tfvars on one stack directory (_deploy_common.py)
    fs,           \* file of the stack directory -> <<>> (missing) or <<text>>
    env,          \* the env argument
    subscription_id, \* the subscription_id argument
    tenant_id,    \* the tenant_id argument
    ensured,      \* <<>> or <<r>>: the record of the completed ensure_tfvars
    \* ---- one stage deployment (deploy_*.py)
    stage,        \* the stack deployed: "00-bootstrap" ... "20-workload"
    spc,          \* the step of its program about to run (from 1)
    status,       \* "idle" | "running" | "returned" | "raised"
    trace,        \* the steps run so far: [op, of, ok]
    state_blob_key, \* the state_blob_key output of the bootstrap stack
    deploy_e2e,   \* the deploy_e2e argument of deploy_workload
    keyUses,      \* the state keys derived so far, with the deriving site
    outputs,      \* <<>> or <<m>>: what terraform_output returned
    built,        \* <<>> or <<s>>: the typed state the deployment built
    stageErr,     \* <<>> or <<[type, names]>>: what the deployment raised
    \* ---- a document written by _write_tfvars and loaded again
    document,     \* the data argument of _write_tfvars
    tfvars_text,  \* <<>> or <<t>>: the text write_text put in the file
    reloaded,     \* <<>> or <<r>>: what load_tfvars made of that file
    \* ---- run_logged(cmd, capture_output=True) (ops/_utils.py)
    script,       \* what the child writes, in order: [stream, line]
    nwritten,     \* how many of these writes the child has done
    pipes,        \* stream -> the lines in the pipe, not read yet
    returncode,   \* <<>> while the child runs, <<rc>> once it exited
    threads,      \* stream -> "new" | "started" | "finished": its _reader
    bufs,         \* stream -> stdout_buf / stderr_buf
    mpc,          \* where the calling thread is in run_logged
    check,        \* the check argument
    completed,    \* <<>> or <<r>>: what run_logged returned or raised
    \* ---- update_latency_route_weights (gateway_config_api/service.py)
    conf,         \* the instances of ai-proxy-multi on 'latency-routing' in
                  \* the APISIX config file
    preferred_backends, \* the preferred_backends argument
    route_calls,  \* the completed calls, in order
    \* ---- set_secret_with_retry on one secret (_openai_secrets.py)
    versions,     \* how many versions of the secret the set command created
    \* ---- readers of the optional 15-foundry state
    reader,       \* "none" | "detect" | "load"
    opc,          \* "idle" | "init" | "output" | "done"
    outcome       \* "none" | "absent" | "present" | "aborted"

retryVars ==
    <<rpc, policy, attempt, invocations, sleeps, lastExc, raised, returned,
      retriedMarks>>
seedVars ==
    <<vault, foundry, expected, allow, placeholder, calls, tampered, synced>>
tfVars == <<file, old, upc, updates, rendered, pending, observed>>
optVars == <<reader, opc, outcome>>
ensureVars == <<fs, env, subscription_id, tenant_id, ensured>>
stageVars ==
    <<stage, spc, status, trace, state_blob_key, deploy_e2e, keyUses, outputs,
      built, stageErr>>
secretVars == <<versions>>
renderVars == <<document, tfvars_text, reloaded>>
captureVars ==
    <<script, nwritten, pipes, returncode, threads, bufs, mpc, check, completed>>
routeVars == <<conf, preferred_backends, route_calls>>
vars ==
    <<retryVars, seedVars, tfVars, optVars, ensureVars, stageVars, secretVars,
      renderVars, captureVars, routeVars>>

Max(a, b) == IF a >= b THEN a ELSE b
Min(a, b) == IF a <= b THEN a ELSE b

RECURSIVE Pow2(_)
Pow2(n) == IF n = 0 THEN 1 ELSE 2 * Pow2(n - 1)

(***************************************************************************)
(* Captured process output.  A text is a sequence of fragments; a fragment *)
(* is a phrase (written here in lower case) and whether the text spells it *)
(* with capitals.  str.lower() drops the capitals; `marker in text` is a   *)
(* case-sensitive substring test, and every marker is lower case.          *)
(***************************************************************************)
Fragment(p, c) == [phrase |-> p, cased |-> c]

Lower(text) == [i \in DOMAIN text |-> [text[i] EXCEPT !.cased = FALSE]]

\* The markers that are substrings of a phrase.
MarkersIn(phrase) ==
    IF phrase = "invalidresourceproperties"
    THEN {"invalidresourceproperties", "invalidresource"}
    ELSE IF phrase = "forbiddenbyrbac"
    THEN {"forbiddenbyrbac", "forbidden"}
    ELSE {phrase}

In(marker, text) ==
    \E i \in DOMAIN text : ~text[i].cased /\ marker \in MarkersIn(text[i].phrase)

\* Bound: lines of captured output (stderr and stdout together) per run.
MaxLines == 2

ApplyFragments ==
    {Fragment(p, FALSE) : p \in
        {"requestconflict",
         "another operation is being performed on the parent resource",
         "status code 409", "response 409", "response 400", "invalidresource",
         "invalidresourceproperties", "invalid resource properties",
         "not supported by the model", "insufficientquota",
         "insufficient quota", "quota limit", "connection reset"}}
    \cup {Fragment("requestconflict", TRUE), Fragment("insufficientquota", TRUE)}

InitFragments ==
    {Fragment(p, FALSE) : p \in
        {"authorizationpermissionmismatch",
         "this request is not authorized to perform this operation",
         "status 403", "backend configuration changed", "requestconflict"}}
    \cup {Fragment("authorizationpermissionmismatch", TRUE),
          Fragment("status 403", TRUE)}

\* What a failed `az keyvault secret set` may print.
SecretFragments ==
    {Fragment(p, FALSE) : p \in
        {"forbiddenbyrbac", "caller is not authorized", "forbidden", "keyvault",
         "secret is disabled"}}
    \cup {Fragment("forbiddenbyrbac", TRUE), Fragment("keyvault", TRUE)}

SeqsUpTo(S, n) == UNION {[1..k -> S] : k \in 0..n}

\* The (stderr, stdout) pairs a failed run may leave.
Outputs(frags) ==
    UNION {[1..k -> frags] \X [1..j -> frags] :
              <<k, j>> \in {kj \in (0..MaxLines) \X (0..MaxLines) :
                               kj[1] + kj[2] <= MaxLines}}

InitOutputs == Outputs(InitFragments)
ApplyOutputs == Outputs(ApplyFragments)
SecretOutputs == Outputs(SecretFragments)

(***************************************************************************)
(* Exceptions.  CalledProcessError carries the captured streams; the two   *)
(* propagation errors are built from str(exc), which names the command and *)
(* the exit status only, and chain the CalledProcessError as __cause__.    *)
(***************************************************************************)
CalledProcessError(cmd, err, out) ==
    [type |-> "CalledProcessError", cmd |-> cmd, stderr |-> err, output |-> out,
     args |-> <<>>, cause |-> <<>>]

StrOf(exc) == <<"Command", exc.cmd, "returned non-zero exit status">>

StorageRbacPropagationError(exc) ==
    [type |-> "StorageRbacPropagationError", cmd |-> "", stderr |-> <<>>,
     output |-> <<>>, args |-> StrOf(exc), cause |-> <<exc>>]

RequestConflictError(exc) ==
    [type |-> "RequestConflictError", cmd |-> "", stderr |-> <<>>,
     output |-> <<>>, args |-> StrOf(exc), cause |-> <<exc>>]

RbacPropagationError(exc) ==
    [type |-> "RbacPropagationError", cmd |-> "", stderr |-> <<>>,
     output |-> <<>>, args |-> StrOf(exc), cause |-> <<exc>>]

_is_forbidden_by_rbac_any_forbidden(exc) ==
    LET lowered == Lower(exc.stderr \o exc.output)
    IN  \/ In("forbiddenbyrbac", lowered)
        \/ In("caller is not authorized", lowered)
        \/ In("forbidden", lowered)

\* _openai_secrets.py, lines 40-47.
_is_forbidden_by_rbac(exc) ==
    LET lowered == Lower(exc.stderr \o exc.output)
    IN  \/ In("forbiddenbyrbac", lowered)
        \/ In("caller is not authorized", lowered)
        \/ In("forbidden", lowered) /\ In("keyvault", lowered)

_is_storage_rbac_error(exc) ==
    LET lowered == Lower(exc.stderr \o exc.output)
    IN  \/ In("authorizationpermissionmismatch", lowered)
        \/ In("this request is not authorized to perform this operation", lowered)
        \/ In("status 403", lowered)

_is_request_conflict_no_exclusions(exc) ==
    LET lowered == Lower(exc.stderr \o exc.output)
    IN  \/ In("requestconflict", lowered)
        \/ In("another operation is being performed on the parent resource",
              lowered)
        \/ In("status code 409", lowered)
        \/ In("response 409", lowered)

_is_request_conflict(exc) ==
    LET lowered == Lower(exc.stderr \o exc.output)
    IN  IF \/ In("response 400", lowered)
           \/ In("invalidresource", lowered)
           \/ In("insufficientquota", lowered)
        THEN FALSE
        ELSE \/ In("requestconflict", lowered)
             \/ In("another operation is being performed on the parent resource",
                   lowered)
             \/ In("status code 409", lowered)
             \/ In("response 409", lowered)

FatalMarkers ==
    {"invalidresourceproperties", "invalid resource properties",
     "not supported by the model", "insufficientquota", "insufficient quota",
     "quota limit"}

_is_fatal_apply_error_quota_only(exc) ==
    LET lowered == Lower(exc.stderr \o exc.output)
    IN  In("insufficientquota", lowered)

_is_fatal_apply_error(exc) ==
    LET lowered == Lower(exc.stderr \o exc.output)
    IN  \E marker \in FatalMarkers : In(marker, lowered)

(***************************************************************************)
(* tenacity: @retry(reraise=True, retry=retry_if_exception_type(T),        *)
(* stop=stop_after_attempt(n), wait=wait_exponential(multiplier, min, max))*)
(***************************************************************************)
InitMaxAttempts == 8
InitWaitMultiplier == 1
InitWaitMin == 2
InitWaitMax == 30
ApplyMaxAttempts == 5
ApplyWaitMultiplier == 1
ApplyWaitMin == 5
ApplyWaitMax == 60
SecretMaxAttempts == 8
SecretWaitMultiplier == 1
SecretWaitMin == 2
SecretWaitMax == 30

wait_exponential_unclamped(multiplier, min, max, n) ==
    Min(multiplier * Pow2(n - 1), max)

\* wait_exponential: multiplier * 2^(attempt_number - 1), clamped to [min, max].
wait_exponential(multiplier, min, max, n) ==
    Max(Max(0, min), Min(multiplier * Pow2(n - 1), max))

RetryTypes_any(p) ==
    {"CalledProcessError", "StorageRbacPropagationError", "RequestConflictError"}

\* The exception types the decorator of each function retries on.
RetryTypes(p) ==
    IF p = "init" THEN {"StorageRbacPropagationError"}
    ELSE IF p = "apply" THEN {"RequestConflictError"}
    ELSE IF p = "secret" THEN {"RbacPropagationError"}
    ELSE {}

MaxAttempts(p) ==
    IF p = "init" THEN InitMaxAttempts
    ELSE IF p = "secret" THEN SecretMaxAttempts
    ELSE ApplyMaxAttempts

Wait(p, n) ==
    IF p = "init"
    THEN wait_exponential(InitWaitMultiplier, InitWaitMin, InitWaitMax, n)
    ELSE IF p = "secret"
    THEN wait_exponential(SecretWaitMultiplier, SecretWaitMin, SecretWaitMax, n)
    ELSE wait_exponential(ApplyWaitMultiplier, ApplyWaitMin, ApplyWaitMax, n)

\* The marker families a failed run's output mentions, in any letter case.
ConflictMarkers ==
    {"requestconflict",
     "another operation is being performed on the parent resource",
     "status code 409", "response 409"}
ExclusionMarkers == {"response 400", "invalidresource", "insufficientquota"}
QuotaValidationMarkers ==
    {"invalidresourceproperties", "invalid resource properties",
     "not supported by the model", "insufficientquota", "insufficient quota",
     "quota limit"}
RbacMarkers ==
    {"authorizationpermissionmismatch",
     "this request is not authorized to perform this operation", "status 403"}

VaultRbacMarkers == {"forbiddenbyrbac", "caller is not authorized"}

Mentions(markers, cpe) ==
    LET text == cpe.stderr \o cpe.output
    IN  \E i \in DOMAIN text : MarkersIn(text[i].phrase) \cap markers # {}

Marks(cpe) ==
    {f \in {"conflict", "exclusion", "fatal", "rbac", "vault rbac", "forbidden",
            "keyvault"} :
        \/ f = "conflict" /\ Mentions(ConflictMarkers, cpe)
        \/ f = "exclusion" /\ Mentions(ExclusionMarkers, cpe)
        \/ f = "fatal" /\ Mentions(QuotaValidationMarkers, cpe)
        \/ f = "rbac" /\ Mentions(RbacMarkers, cpe)
        \/ f = "vault rbac" /\ Mentions(VaultRbacMarkers, cpe)
        \/ f = "forbidden" /\ Mentions({"forbidden"}, cpe)
        \/ f = "keyvault" /\ Mentions({"keyvault"}, cpe)}

\* tenacity stops before another attempt once attempt_number reaches the limit.
stop_after_attempt(p, n) == n >= MaxAttempts(p)

Retry_never_stops(exc, cpe) ==
    /\ invocations' = invocations + 1
    /\ IF exc.type \in RetryTypes(policy) /\ attempt <= MaxAttempts(policy)
       THEN /\ sleeps' = Append(sleeps, Wait(policy, attempt))
            /\ attempt' = attempt + 1
            /\ lastExc' = <<>>
            /\ retriedMarks' = <<Marks(cpe)>>
            /\ UNCHANGED <<rpc, raised>>
       ELSE /\ rpc' = "done"
            /\ raised' = <<exc>>
            /\ lastExc' = <<cpe>>
            /\ UNCHANGED <<sleeps, attempt, retriedMarks>>
    /\ UNCHANGED <<policy, returned>>

\* One pass of tenacity's loop after run_logged raised cpe and the wrapped
\* function raised exc on attempt number `attempt`: sleep and go round again
\* (prepare_for_next_attempt forgets the outcome), or raise exc (reraise=True).
Retry(exc, cpe) ==
    /\ invocations' = invocations + 1
    /\ IF exc.type \in RetryTypes(policy) /\ ~stop_after_attempt(policy, attempt)
       THEN /\ sleeps' = Append(sleeps, Wait(policy, attempt))
            /\ attempt' = attempt + 1
            /\ lastExc' = <<>>
            /\ retriedMarks' = <<Marks(cpe)>>
            /\ UNCHANGED <<rpc, raised>>
       ELSE /\ rpc' = "done"
            /\ raised' = <<exc>>
            /\ lastExc' = <<cpe>>
            /\ UNCHANGED <<sleeps, attempt, retriedMarks>>
    /\ UNCHANGED <<policy, returned>>

\* The wrapped function returned: tenacity returns its result.
Return ==
    /\ invocations' = invocations + 1
    /\ rpc' = "done"
    /\ returned' = TRUE
    /\ UNCHANGED <<policy, attempt, sleeps, lastExc, raised, retriedMarks>>

Begin(p) ==
    /\ rpc = "idle"
    /\ rpc' = "call"
    /\ policy' = p
    /\ attempt' = 1
    /\ UNCHANGED <<invocations, sleeps, lastExc, raised, returned, retriedMarks>>

\* The exception the body of terraform_init_remote raises for a failed run.
InitBodyRaises(cpe) ==
    IF _is_storage_rbac_error(cpe) THEN StorageRbacPropagationError(cpe) ELSE cpe

\* The exception the body of terraform_apply raises for a failed run.
ApplyBodyRaises(cpe) ==
    IF _is_request_conflict(cpe) /\ ~_is_fatal_apply_error(cpe)
    THEN RequestConflictError(cpe)
    ELSE cpe

terraform_init_remote_ok ==
    /\ rpc = "call" /\ policy = "init"
    /\ Return

terraform_init_remote_fail ==
    /\ rpc = "call" /\ policy = "init"
    /\ \E o \in InitOutputs :
          LET cpe == CalledProcessError("init", o[1], o[2])
          IN  Retry(InitBodyRaises(cpe), cpe)

terraform_apply_ok ==
    /\ rpc = "call" /\ policy = "apply"
    /\ Return

terraform_apply_fail ==
    /\ rpc = "call" /\ policy = "apply"
    /\ \E o \in ApplyOutputs :
          LET cpe == CalledProcessError("apply", o[1], o[2])
          IN  Retry(ApplyBodyRaises(cpe), cpe)

RetryIdle ==
    /\ rpc = "idle" /\ policy = "none" /\ attempt = 0 /\ invocations = 0
    /\ sleeps = <<>> /\ lastExc = <<>> /\ raised = <<>> /\ returned = FALSE
    /\ retriedMarks = <<>>

SeedIdle ==
    /\ vault = <<>> /\ foundry = <<>> /\ expected = <<>> /\ allow = FALSE
    /\ placeholder = "" /\ calls = <<>> /\ tampered = 0 /\ synced = <<>>

TfIdle ==
    /\ file = <<>> /\ old = <<>> /\ upc = "idle" /\ updates = <<>>
    /\ rendered = <<>> /\ pending = <<>> /\ observed = <<>>

OptIdle == reader = "none" /\ opc = "idle" /\ outcome = "none"

EnsureIdle ==
    /\ fs = <<>> /\ env = "" /\ subscription_id = "" /\ tenant_id = ""
    /\ ensured = <<>>

SecretIdle == versions = 0

RouteIdle == conf = <<>> /\ preferred_backends = <<>> /\ route_calls = <<>>

CaptureIdle ==
    /\ script = <<>> /\ nwritten = 0 /\ pipes = <<>> /\ returncode = <<>>
    /\ threads = <<>> /\ bufs = <<>> /\ mpc = "idle" /\ check = FALSE
    /\ completed = <<>>

RenderIdle == document = <<>> /\ tfvars_text = <<>> /\ reloaded = <<>>

StageIdle ==
    /\ stage = "" /\ spc = 0 /\ status = "idle" /\ trace = <<>>
    /\ state_blob_key = <<>> /\ deploy_e2e = FALSE /\ keyUses = {}
    /\ outputs = <<>> /\ built = <<>> /\ stageErr = <<>>

(***************************************************************************)
(* SpecRetry: one call of terraform_init_remote or of terraform_apply.     *)
(***************************************************************************)
InitRetry == RetryIdle /\ SeedIdle /\ TfIdle /\ OptIdle /\ EnsureIdle /\ StageIdle /\ SecretIdle /\ RenderIdle /\ CaptureIdle /\ RouteIdle

CallInitRemote == Begin("init") /\ UNCHANGED <<seedVars, tfVars, optVars, ensureVars, stageVars, secretVars, renderVars, captureVars, routeVars>>
CallApply == Begin("apply") /\ UNCHANGED <<seedVars, tfVars, optVars, ensureVars, stageVars, secretVars, renderVars, captureVars, routeVars>>
InitRemoteOk == terraform_init_remote_ok /\ UNCHANGED <<seedVars, tfVars, optVars, ensureVars, stageVars, secretVars, renderVars, captureVars, routeVars>>
InitRemoteFail == terraform_init_remote_fail /\ UNCHANGED <<seedVars, tfVars, optVars, ensureVars, stageVars, secretVars, renderVars, captureVars, routeVars>>
ApplyOk == terraform_apply_ok /\ UNCHANGED <<seedVars, tfVars, optVars, ensureVars, stageVars, secretVars, renderVars, captureVars, routeVars>>
ApplyFail == terraform_apply_fail /\ UNCHANGED <<seedVars, tfVars, optVars, ensureVars, stageVars, secretVars, renderVars, captureVars, routeVars>>

NextRetry ==
    \/ CallInitRemote
    \/ CallApply
    \/ InitRemoteOk
    \/ InitRemoteFail
    \/ ApplyOk
    \/ ApplyFail

SpecRetry == InitRetry /\ [][NextRetry]_vars

(***************************************************************************)
(* SpecSecret: one call of set_secret_with_retry.  A run of                *)
(* `az keyvault secret set` that exits with 0 created one version of the   *)
(* secret; a run that failed created none.                                 *)
(***************************************************************************)
\* The exception the body of set_secret_with_retry raises for a failed run.
SecretBodyRaises(cpe) ==
    IF _is_forbidden_by_rbac(cpe) THEN RbacPropagationError(cpe) ELSE cpe

set_secret_with_retry_ok ==
    /\ rpc = "call" /\ policy = "secret"
    /\ Return
    /\ versions' = versions + 1

set_secret_with_retry_fail ==
    /\ rpc = "call" /\ policy = "secret"
    /\ \E o \in SecretOutputs :
          LET cpe == CalledProcessError("secret set", o[1], o[2])
          IN  Retry(SecretBodyRaises(cpe), cpe)
    /\ UNCHANGED versions

InitSecret ==
    RetryIdle /\ SeedIdle /\ TfIdle /\ OptIdle /\ EnsureIdle /\ StageIdle /\ SecretIdle /\ RenderIdle /\ CaptureIdle /\ RouteIdle

CallSetSecret ==
    /\ Begin("secret")
    /\ UNCHANGED <<seedVars, tfVars, optVars, ensureVars, stageVars, secretVars, renderVars, captureVars, routeVars>>
SetSecretOk ==
    /\ set_secret_with_retry_ok
    /\ UNCHANGED <<seedVars, tfVars, optVars, ensureVars, stageVars, renderVars, captureVars, routeVars>>
SetSecretFail ==
    /\ set_secret_with_retry_fail
    /\ UNCHANGED <<seedVars, tfVars, optVars, ensureVars, stageVars, renderVars, captureVars, routeVars>>

NextSecret ==
    \/ CallSetSecret
    \/ SetSecretOk
    \/ SetSecretFail

SpecSecret == InitSecret /\ [][NextSecret]_vars

(***************************************************************************)
(* seed_openai_secrets.  The Key Vault maps a secret name to <<>> (no such *)
(* secret) or <<[value, source]>>, source being the value of the tag       *)
(* "source" ("" when the secret has no such tag).  A call records the      *)
(* names it showed (reads) and the set operations it completed (sets).     *)
(***************************************************************************)
PLACEHOLDER_VALUE == "pending-foundry"
FallbackName == "azure-openai-key-0"

SecretNames == {"azure-openai-key-0", "azure-openai-key-1"}
SecretValues == {"key-A", "key-B"}

\* Bound: provisioned names / values the upstream stage exposes.
MaxProvisioned == 2

Secret(v, src) == [value |-> v, source |-> src]

\* What the vault may hold for one name before the first call.
StoredChoices ==
    {<<>>, <<Secret("key-A", "foundry")>>, <<Secret(PLACEHOLDER_VALUE, "pending")>>,
     <<Secret("key-B", "")>>}

ExpectedChoices ==
    {<<>>, <<"azure-openai-key-1", "azure-openai-key-0", "azure-openai-key-1">>}

\* _read_existing_secret: (value or None, tags); None is <<>>, and only the
\* "source" tag is kept.  SecretNotFound gives (None, {}).
_read_existing_secret(v, name) ==
    IF v[name] = <<>>
    THEN [value |-> <<>>, source |-> ""]
    ELSE [value |-> <<v[name][1].value>>, source |-> v[name][1].source]

RECURSIVE _dedupe_preserve_order(_)
_dedupe_preserve_order(items) ==
    IF items = <<>> THEN <<>>
    ELSE LET init == _dedupe_preserve_order(SubSeq(items, 1, Len(items) - 1))
             item == items[Len(items)]
         IN  IF \E i \in DOMAIN init : init[i] = item THEN init
             ELSE Append(init, item)

candidate_names_always_fallback(provisioned_names) ==
    LET first == IF provisioned_names # <<>> THEN provisioned_names
                 ELSE _dedupe_preserve_order(expected)
    IN  IF first = <<>> THEN <<FallbackName>> ELSE first

\* Lines 198-203.
candidate_names(provisioned_names) ==
    LET first == IF provisioned_names # <<>> THEN provisioned_names
                 ELSE _dedupe_preserve_order(expected)
    IN  IF first = <<>> /\ allow THEN <<FallbackName>> ELSE first

has_real_values_names_only(provisioned_names, provisioned_values) ==
    Len(provisioned_names) > 0

\* Lines 209-211.
has_real_values(provisioned_names, provisioned_values) ==
    Len(provisioned_names) > 0 /\ Len(provisioned_names) = Len(provisioned_values)

Decide_no_skip(real, existing, desired_value) ==
    IF real /\ existing.source = "foundry" /\ existing.value = <<desired_value>>
    THEN "unchanged"
    ELSE IF ~real /\ existing.source = "pending"
                  /\ existing.value = <<desired_value>>
    THEN "unchanged"
    ELSE "set"

Decide_trusts_foundry_tag(real, existing, desired_value) ==
    IF real /\ existing.source = "foundry"
    THEN "unchanged"
    ELSE IF ~real /\ existing.source = "foundry"
    THEN "skipped"
    ELSE IF ~real /\ existing.source = "pending"
                  /\ existing.value = <<desired_value>>
    THEN "unchanged"
    ELSE "set"

Decide_never_sets(real, existing, desired_value) ==
    IF ~real /\ existing.source = "foundry" THEN "skipped" ELSE "unchanged"

Decide_always_set(real, existing, desired_value) ==
    IF ~real /\ existing.source = "foundry" THEN "skipped" ELSE "set"

\* The decision table of lines 226-246.
Decide(real, existing, desired_value) ==
    IF real /\ existing.source = "foundry" /\ existing.value = <<desired_value>>
    THEN "unchanged"
    ELSE IF ~real /\ existing.source = "foundry"
    THEN "skipped"
    ELSE IF ~real /\ existing.source = "pending"
                  /\ existing.value = <<desired_value>>
    THEN "unchanged"
    ELSE "set"

summary_append_if_new(summary, bucket, name) ==
    IF \E i \in DOMAIN summary[bucket] : summary[bucket][i] = name
    THEN summary
    ELSE [summary EXCEPT ![bucket] = Append(@, name)]

\* summary[bucket].append(name), lines 232, 237, 245, 255.
summary_append(summary, bucket, name) ==
    [summary EXCEPT ![bucket] = Append(@, name)]

desired_source_tags_always_foundry(real) == "foundry"

\* Line 212: the "source" tag of FOUNDATION_TAGS or of PLACEHOLDER_TAGS.
desired_source_tags(real) == IF real THEN "foundry" ELSE "pending"

\* The loop of lines 220-255 from candidate idx on (idx counts from 1).  c is
\* the call: names, real, values, placeholder, and the candidate at which a
\* vault operation (the show, or the set with its retries used up) raises
\* (failAt = 0: none does).  st is the state of the call so far.
RECURSIVE SeedLoop(_, _, _)
SeedLoop(c, idx, st) ==
    IF idx > Len(c.names) THEN st
    ELSE IF c.real /\ idx \notin DOMAIN c.values
    THEN [st EXCEPT !.error = "IndexError"]
    ELSE IF c.failAt = idx
    THEN [st EXCEPT !.error = "CalledProcessError",
                    !.reads = Append(@, c.names[idx]),
                    !.indexed = IF c.real THEN @ \cup {idx} ELSE @]
    ELSE
      LET name == c.names[idx]
          desired_value == IF c.real THEN c.values[idx] ELSE c.placeholder
          st1 == [st EXCEPT !.reads = Append(@, name),
                            !.indexed = IF c.real THEN @ \cup {idx} ELSE @]
          existing == _read_existing_secret(st.vault, name)
          decision == Decide(c.real, existing, desired_value)
          source == desired_source_tags(c.real)
          op == [name |-> name, value |-> desired_value, source |-> source,
                 idx |-> idx]
          bucket == IF c.real THEN "seeded" ELSE "placeholders"
      IN  IF decision \in {"unchanged", "skipped"}
          THEN SeedLoop(c, idx + 1,
                 [st1 EXCEPT
                    !.summary = summary_append(@, decision, name)])
          ELSE SeedLoop(c, idx + 1,
                 [st1 EXCEPT
                    !.vault[name] = <<Secret(desired_value, source)>>,
                    !.sets = Append(@, op),
                    !.summary = summary_append(@, bucket, name)])

EmptySummary ==
    [seeded |-> <<>>, placeholders |-> <<>>, unchanged |-> <<>>, skipped |-> <<>>]

\* One call of seed_openai_secrets on the current vault.  The record it
\* leaves in `calls` is what the caller and the vault's audit log can see.
seed_openai_secrets(failAt) ==
    LET provisioned_names == IF foundry # <<>> THEN foundry[1].names ELSE <<>>
        provisioned_values == IF foundry # <<>> THEN foundry[1].values ELSE <<>>
        names == candidate_names(provisioned_names)
        real == has_real_values(provisioned_names, provisioned_values)
        c == [names |-> names, real |-> real, values |-> provisioned_values,
              placeholder |-> placeholder, failAt |-> failAt]
        st0 == [vault |-> vault, summary |-> EmptySummary, sets |-> <<>>,
                reads |-> <<>>, indexed |-> {}, error |-> ""]
        st == IF names = <<>> THEN st0 ELSE SeedLoop(c, 1, st0)
    IN  /\ Len(calls) < 2
        /\ failAt <= Len(names)
        /\ vault' = st.vault
        /\ calls' = Append(calls,
              [names |-> names, real |-> real, summary |-> st.summary,
               sets |-> st.sets, reads |-> st.reads, indexed |-> st.indexed,
               error |-> st.error, before |-> vault, after |-> st.vault, tampered |-> tampered])
        /\ UNCHANGED <<foundry, expected, allow, placeholder, tampered, synced>>

\* Somebody else (the foundry stage's own reconciliation, an operator) writes
\* a real key into the vault between two calls.
ExternalSet(name) ==
    /\ Len(calls) = 1
    /\ tampered = 0
    /\ tampered' = 1
    /\ vault' = [vault EXCEPT ![name] = <<Secret("key-B", "foundry")>>]
    /\ UNCHANGED <<foundry, expected, allow, placeholder, calls, synced>>

(***************************************************************************)
(* SpecSeed: seed_openai_secrets called, and called again with the same    *)
(* arguments and the same upstream outputs.                                *)
(***************************************************************************)
FoundryChoices ==
    {<<>>} \cup
    {<<[names |-> n, values |-> v]>> :
        n \in SeqsUpTo(SecretNames, MaxProvisioned),
        v \in SeqsUpTo(SecretValues, MaxProvisioned)}

InitSeed ==
    /\ RetryIdle /\ TfIdle /\ OptIdle /\ EnsureIdle /\ StageIdle /\ SecretIdle /\ RenderIdle /\ CaptureIdle /\ RouteIdle
    /\ vault \in [SecretNames -> StoredChoices]
    /\ foundry \in FoundryChoices
    /\ expected \in ExpectedChoices
    /\ allow \in BOOLEAN
    /\ placeholder = PLACEHOLDER_VALUE
    /\ calls = <<>>
    /\ tampered = 0
    /\ synced = <<>>

SeedCall ==
    /\ \E failAt \in 0..(MaxProvisioned + 1) : seed_openai_secrets(failAt)
    /\ UNCHANGED <<retryVars, tfVars, optVars, ensureVars, stageVars, secretVars, renderVars, captureVars, routeVars>>

SomebodyElseWrites ==
    /\ \E name \in SecretNames : ExternalSet(name)
    /\ UNCHANGED <<retryVars, tfVars, optVars, ensureVars, stageVars, secretVars, renderVars, captureVars, routeVars>>

NextSeed ==
    \/ SeedCall
    \/ SomebodyElseWrites

SpecSeed == InitSeed /\ [][NextSeed]_vars

(***************************************************************************)
(* _sync_foundry_secrets (sync_env.py): the other writer of provisioned    *)
(* keys.  `readable` is whether terraform_init_remote and terraform_output *)
(* on 15-foundry succeeded; failAt is the pair at which                    *)
(* set_secret_with_retry raises (0: none does).  The secret is set with    *)
(* --value only, so the new version carries no source tag.                 *)
(***************************************************************************)
RECURSIVE SyncLoop(_, _, _, _, _)
SyncLoop(secret_names, secret_values, failAt, idx, st) ==
    IF idx > Min(Len(secret_names), Len(secret_values)) THEN st
    ELSE IF failAt = idx THEN [st EXCEPT !.error = "CalledProcessError"]
    ELSE LET name == secret_names[idx]
             value == secret_values[idx]
         IN  SyncLoop(secret_names, secret_values, failAt, idx + 1,
                [st EXCEPT !.vault[name] = <<Secret(value, "")>>,
                           !.sets = Append(@, [name |-> name, value |-> value,
                                               source |-> "", idx |-> idx])])

_sync_foundry_secrets(readable, failAt) ==
    LET secret_names == IF foundry # <<>> THEN foundry[1].names ELSE <<>>
        secret_values == IF foundry # <<>> THEN foundry[1].values ELSE <<>>
        st0 == [vault |-> vault, sets |-> <<>>, error |-> ""]
        skip(why) == [st0 EXCEPT !.error = why]
        st == IF foundry = <<>> THEN skip("skipped: no stack")
              ELSE IF ~readable THEN skip("skipped: unreadable state")
              ELSE IF secret_names = <<>> \/ secret_values = <<>>
              THEN skip("skipped: no secrets")
              ELSE IF Len(secret_names) # Len(secret_values)
              THEN skip("skipped: mismatch")
              ELSE SyncLoop(secret_names, secret_values, failAt, 1, st0)
    IN  /\ synced = <<>>
        /\ failAt <= Len(secret_names)
        /\ vault' = st.vault
        /\ synced' = Append(synced,
              [sets |-> st.sets, error |-> st.error, before |-> vault,
               after |-> st.vault])
        /\ UNCHANGED <<foundry, expected, allow, placeholder, calls, tampered>>

\* SpecSync: one run of sync-env's foundry sync and calls of
\* seed_openai_secrets on the same vault, in any order.
InitSync ==
    /\ InitSeed
    /\ expected = <<>>
    /\ allow

SyncFoundrySecrets ==
    /\ \E readable \in BOOLEAN : \E failAt \in 0..(MaxProvisioned + 1) :
          _sync_foundry_secrets(readable, failAt)
    /\ UNCHANGED <<retryVars, tfVars, optVars, ensureVars, stageVars, secretVars, renderVars, captureVars, routeVars>>

NextSync ==
    \/ SyncFoundrySecrets
    \/ SeedCall

SpecSync == InitSync /\ [][NextSync]_vars


(***************************************************************************)
(* tfvars documents.  A Python value is [t, v]: a type and its content; a  *)
(* document (a dict, ordered) is a sequence of [key, val] with no key      *)
(* twice.  A file is a sequence of lines [key, lex], lex being the text    *)
(* right of "=": a bare word, a quoted string, a bracketed list or a brace  *)
(* block.  A nested dict is a sequence of [key, val] whose key is the      *)
(* sequence of the words of the key string ("cost center" is two words);   *)
(* the block written for it has, per entry, the words left of "=" and the  *)
(* lexeme right of it.                                                     *)
(***************************************************************************)
None == [t |-> "none", v |-> <<>>]
Bool(b) == [t |-> "bool", v |-> <<b>>]
Num(n) == [t |-> "num", v |-> <<n>>]
Str(x) == [t |-> "str", v |-> <<x>>]
List(items) == [t |-> "list", v |-> items]
Dict(entries) == [t |-> "dict", v |-> <<>>, items |-> entries]

Bare(w) == [k |-> "bare", s |-> <<w>>]
Quoted(w) == [k |-> "quoted", s |-> <<w>>]
Bracketed(lexes) == [k |-> "list", s |-> lexes]
Braced(entries) == [k |-> "block", s |-> <<>>, entries |-> entries]
Garbage == [k |-> "garbage", s |-> <<>>]

\* Lines 190-207 (bool, number, str, list, dict, None; json.dumps quotes a
\* string; a dict entry is written f"{key} = {value}", the key as it is).
RECURSIVE _format_value(_)
_format_value(value) ==
    IF value.t = "bool" THEN Bare(IF value.v[1] = "True" THEN "true" ELSE "false")
    ELSE IF value.t = "num" THEN Bare(value.v[1])
    ELSE IF value.t = "str" THEN Quoted(value.v[1])
    ELSE IF value.t = "list"
    THEN Bracketed([i \in DOMAIN value.v |-> _format_value(value.v[i])])
    ELSE IF value.t = "dict"
    THEN Braced([i \in DOMAIN value.items |->
                   [words |-> value.items[i].key,
                    lex |-> _format_value(value.items[i].val)]])
    ELSE Bare("null")

_render_tfvars_local(data) ==
    [i \in DOMAIN data |-> [key |-> data[i].key, lex |-> _format_value(data[i].val)]]

\* hcl2 on the right-hand side of an assignment.
RECURSIVE ParseValue(_)
ParseValue(lex) ==
    IF lex.k = "quoted" THEN Str(lex.s[1])
    ELSE IF lex.k = "list"
    THEN List([i \in DOMAIN lex.s |-> ParseValue(lex.s[i])])
    ELSE IF lex.k = "block"
    THEN Dict([i \in DOMAIN lex.entries |->
                 [key |-> lex.entries[i].words,
                  val |-> ParseValue(lex.entries[i].lex)]])
    ELSE IF lex.s[1] = "true" THEN Bool("True")
    ELSE IF lex.s[1] = "false" THEN Bool("False")
    ELSE IF lex.s[1] = "null" THEN None
    ELSE Num(lex.s[1])

RECURSIVE Lexes(_)
Lexes(lex) ==
    {lex} \cup (IF lex.k = "list"
                THEN UNION {Lexes(lex.s[i]) : i \in DOMAIN lex.s}
                ELSE IF lex.k = "block"
                THEN UNION {Lexes(lex.entries[i].lex) : i \in DOMAIN lex.entries}
                ELSE {})

\* The left-hand side of an entry of a brace block is one identifier (or one
\* quoted string): several bare words before "=" are a syntax error.
ObjectKeysParse(lex) ==
    \A b \in Lexes(lex) :
        b.k = "block" =>
            \A i \in DOMAIN b.entries : Len(b.entries[i].words) = 1

\* hcl2.load raises on a text it cannot parse.
Parses(text) ==
    \A i \in DOMAIN text :
        Garbage \notin Lexes(text[i].lex) /\ ObjectKeysParse(text[i].lex)

load_tfvars(text) ==
    [i \in DOMAIN text |-> [key |-> text[i].key, val |-> ParseValue(text[i].lex)]]

\* dict operations
HasKey(data, key) == \E i \in DOMAIN data : data[i].key = key
Get(data, key) == data[CHOOSE i \in DOMAIN data : data[i].key = key].val
SetItem(data, key, val) ==
    IF HasKey(data, key)
    THEN [i \in DOMAIN data |->
            IF data[i].key = key THEN [key |-> key, val |-> val] ELSE data[i]]
    ELSE Append(data, [key |-> key, val |-> val])

RECURSIVE Merge_sets_none(_, _)
Merge_sets_none(data, upd) ==
    IF upd = <<>> THEN data
    ELSE Merge_sets_none(SetItem(data, upd[1].key, upd[1].val), Tail(upd))

\* The loop of update_tfvars, lines 259-262.
RECURSIVE Merge(_, _)
Merge(data, upd) ==
    IF upd = <<>> THEN data
    ELSE IF upd[1].val = None THEN Merge(data, Tail(upd))
    ELSE Merge(SetItem(data, upd[1].key, upd[1].val), Tail(upd))

TfKeys == <<"platform_acr_name", "secret_names">>

TfValues ==
    {Bool("True"), Num("1"), Str("acr1"), Str("true"), List(<<Str("s1"), Num("1")>>),
     None}

Absent == [t |-> "absent", v |-> <<>>]

\* The documents over TfKeys: every key absent or bound to one of TfValues.
Documents ==
    {LET present == SelectSeq(TfKeys, LAMBDA key : f[key] # Absent)
     IN  [i \in DOMAIN present |-> [key |-> present[i], val |-> f[present[i]]]] :
        f \in [{TfKeys[i] : i \in DOMAIN TfKeys} -> TfValues \cup {Absent}]}

\* update_tfvars up to the moment write_text has opened the file, which
\* truncates it (lines 258-263, 233-243); raises when the file does not parse.
update_tfvars(upd) ==
    /\ upc = "idle"
    /\ updates' = upd
    /\ old' = file
    /\ IF Parses(file)
       THEN LET data == Merge(load_tfvars(file), upd)
            IN  /\ rendered' = _render_tfvars_local(data)
                /\ pending' = _render_tfvars_local(data)
                /\ file' = <<>>
                /\ upc' = "writing"
       ELSE /\ upc' = "failed"
            /\ UNCHANGED <<file, rendered, pending>>
    /\ UNCHANGED observed

\* write_text flushes the next part of the text into the file.
write_text_flush ==
    /\ upc = "writing" /\ pending # <<>>
    /\ file' = Append(file, Head(pending))
    /\ pending' = Tail(pending)
    /\ UNCHANGED <<old, upc, updates, rendered, observed>>

\* write_text closes the file; _log_tfvars_diff; update_tfvars returns.
write_text_close ==
    /\ upc = "writing" /\ pending = <<>>
    /\ upc' = "done"
    /\ UNCHANGED <<file, old, updates, rendered, pending, observed>>

\* Another process (the terraform run of another shell, an editor) reads the
\* path.
read_path ==
    /\ observed' = <<file>>
    /\ UNCHANGED <<file, old, upc, updates, rendered, pending>>

\* _write_tfvars: render the document and write the text (lines 243-244).
_write_tfvars(doc) ==
    /\ tfvars_text = <<>>
    /\ tfvars_text' = <<_render_tfvars_local(doc)>>
    /\ UNCHANGED <<document, reloaded>>

\* load_tfvars on the file _write_tfvars left: the dict, or hcl2's error.
load_written ==
    /\ tfvars_text # <<>> /\ reloaded = <<>>
    /\ reloaded' =
          <<IF Parses(tfvars_text[1])
            THEN [raised |-> "", data |-> load_tfvars(tfvars_text[1])]
            ELSE [raised |-> "ParseError", data |-> <<>>]>>
    /\ UNCHANGED <<document, tfvars_text>>

(***************************************************************************)
(* SpecTfvars: one update_tfvars on a file, with a reader of the path.     *)
(***************************************************************************)
InitTfvars ==
    /\ RetryIdle /\ SeedIdle /\ OptIdle /\ EnsureIdle /\ StageIdle /\ SecretIdle /\ RenderIdle /\ CaptureIdle /\ RouteIdle
    /\ file \in {_render_tfvars_local(d) : d \in Documents}
                \cup {<<[key |-> TfKeys[1], lex |-> Garbage]>>}
    /\ old = <<>> /\ upc = "idle" /\ updates = <<>>
    /\ rendered = <<>> /\ pending = <<>> /\ observed = <<>>

UpdateTfvars ==
    /\ \E upd \in Documents : update_tfvars(upd)
    /\ UNCHANGED <<retryVars, seedVars, optVars, ensureVars, stageVars, secretVars, renderVars, captureVars, routeVars>>

WriteFlush == write_text_flush /\ UNCHANGED <<retryVars, seedVars, optVars, ensureVars, stageVars, secretVars, renderVars, captureVars, routeVars>>
WriteClose == write_text_close /\ UNCHANGED <<retryVars, seedVars, optVars, ensureVars, stageVars, secretVars, renderVars, captureVars, routeVars>>
ReadPath == read_path /\ UNCHANGED <<retryVars, seedVars, optVars, ensureVars, stageVars, secretVars, renderVars, captureVars, routeVars>>

NextTfvars ==
    \/ UpdateTfvars
    \/ WriteFlush
    \/ WriteClose
    \/ ReadPath

SpecTfvars == InitTfvars /\ [][NextTfvars]_vars

(***************************************************************************)
(* SpecRender: a document written by _write_tfvars and loaded again.       *)
(***************************************************************************)
Entry1(words, val) == <<[key |-> words, val |-> val]>>

RenderValues ==
    {Bool("True"), Bool("False"), Num("1"), Num("0.5"), Str("acr1"), Str("true"),
     Str(""), List(<<>>), List(<<Str("s1"), Num("1")>>), Dict(<<>>),
     Dict(Entry1(<<"sku">>, Str("S0"))),
     Dict(Entry1(<<"cost", "center">>, Str("ai"))),
     Dict(Entry1(<<"tags">>, Dict(Entry1(<<"env">>, Bool("True"))))),
     List(<<Dict(Entry1(<<"name">>, Str("gpt"))),
            Dict(Entry1(<<"name">>, Num("1")))>>)}

\* The documents over TfKeys: every key absent or bound to one of RenderValues.
RenderDocuments ==
    {LET present == SelectSeq(TfKeys, LAMBDA key : f[key] # Absent)
     IN  [i \in DOMAIN present |-> [key |-> present[i], val |-> f[present[i]]]] :
        f \in [{TfKeys[i] : i \in DOMAIN TfKeys} -> RenderValues \cup {Absent}]}

InitRender ==
    /\ RetryIdle /\ SeedIdle /\ TfIdle /\ OptIdle /\ EnsureIdle /\ StageIdle /\ CaptureIdle /\ RouteIdle
    /\ SecretIdle
    /\ document \in RenderDocuments
    /\ tfvars_text = <<>> /\ reloaded = <<>>

WriteTfvars ==
    /\ _write_tfvars(document)
    /\ UNCHANGED <<retryVars, seedVars, tfVars, optVars, ensureVars, stageVars,
                   secretVars, captureVars, routeVars>>

LoadWritten ==
    /\ load_written
    /\ UNCHANGED <<retryVars, seedVars, tfVars, optVars, ensureVars, stageVars,
                   secretVars, captureVars, routeVars>>

NextRender ==
    \/ WriteTfvars
    \/ LoadWritten

SpecRender == InitRender /\ [][NextRender]_vars


(***************************************************************************)
(* ensure_tfvars on one stack directory.  The directory holds the target   *)
(* <env>.tfvars and the two example candidates; each file is missing       *)
(* (<<>>) or has a text (<<text>>).                                        *)
(***************************************************************************)
Target == "<env>.tfvars"
Candidates == <<"terraform.tfvars.<env>.example", "<env>.tfvars.example">>
StackFiles == {Target} \cup {Candidates[i] : i \in DOMAIN Candidates}

\* The stack_dir argument, as the error message prints it.
StackDir == "stack_dir"

\* Line 274: the first candidate that exists, or "None".
example_of(f) ==
    IF \E i \in DOMAIN Candidates : f[Candidates[i]] # <<>>
    THEN Candidates[CHOOSE i \in DOMAIN Candidates :
                        /\ f[Candidates[i]] # <<>>
                        /\ \A j \in 1..(i - 1) : f[Candidates[j]] = <<>>]
    ELSE "None"

DictUpdate_keeps_base(data, other) ==
    LET missing == SelectSeq(other, LAMBDA kv : ~HasKey(data, kv.key))
    IN  data \o missing

\* dict.update: every item of other is assigned into data.
RECURSIVE DictUpdate(_, _)
DictUpdate(data, other) ==
    IF other = <<>> THEN data
    ELSE DictUpdate(SetItem(data, other[1].key, other[1].val), Tail(other))

current_data_or_raise(text) ==
    IF Parses(text) THEN [raised |-> "", data |-> load_tfvars(text)]
    ELSE [raised |-> "ParseError", data |-> <<>>]

\* Lines 285-293: the target's document, {} when hcl2 cannot parse it.
current_data(text) ==
    IF Parses(text) THEN [raised |-> "", data |-> load_tfvars(text)]
    ELSE [raised |-> "", data |-> <<>>]

ForceIdentity_if_missing(data, e, sub, tenant) ==
    LET put(d, key, x) == IF HasKey(d, key) THEN d ELSE SetItem(d, key, Str(x))
    IN  put(put(put(data, "subscription_id", sub), "tenant_id", tenant),
            "environment_code", e)

\* Lines 301-303.
ForceIdentity(data, e, sub, tenant) ==
    SetItem(SetItem(SetItem(data, "subscription_id", Str(sub)),
                    "tenant_id", Str(tenant)),
            "environment_code", Str(e))

base_data_empty(text) == <<>>

\* Line 283: the document of the target just seeded with the example's text.
base_data_of_seeded(text) == load_tfvars(text)

\* ensure_tfvars(stack_dir, env, subscription_id, tenant_id) on the
\* directory f: the directory afterwards, what was raised ("" when the call
\* returned), the directory the error message names, and the path returned.
ensure_tfvars(f, e, sub, tenant) ==
    LET example == example_of(f)
        fails(type, g, dir) ==
            [fs |-> g, raised |-> type, names |-> dir, returned |-> <<>>,
             example |-> example]
        writes(g, base_data) ==
            [fs |-> [g EXCEPT ![Target] =
                        <<_render_tfvars_local(
                            ForceIdentity(base_data, e, sub, tenant))>>],
             raised |-> "", names |-> "", returned |-> <<Target>>,
             example |-> example]
    IN  IF f[Target] = <<>>
        THEN IF example = "None"
             THEN fails("FileNotFoundError", f, StackDir)
             ELSE LET seeded == [f EXCEPT ![Target] = f[example]]
                  IN  IF ~Parses(seeded[Target][1])
                      THEN fails("ParseError", seeded, "")
                      ELSE writes(seeded, base_data_of_seeded(seeded[Target][1]))
        ELSE LET cur == current_data(f[Target][1])
             IN  IF cur.raised # "" THEN fails(cur.raised, f, "")
                 ELSE IF example # "None"
                 THEN IF ~Parses(f[example][1])
                      THEN fails("ParseError", f, "")
                      ELSE writes(f, DictUpdate(load_tfvars(f[example][1]),
                                                cur.data))
                 ELSE writes(f, cur.data)

IdentityKeys == {"subscription_id", "tenant_id", "environment_code"}

EnsureValues == {Str("acr1"), Num("1"), Str("1")}

\* What a document may hold under the identity keys before the call.
IdentityChoices ==
    {<<>>,
     <<[key |-> "environment_code", val |-> Str("qa")]>>,
     <<[key |-> "subscription_id", val |-> Str("sub-0")],
       [key |-> "tenant_id", val |-> Str("ten-0")],
       [key |-> "environment_code", val |-> Str("qa")]>>}

EnsureDocuments ==
    {LET present == SelectSeq(TfKeys, LAMBDA key : f[key] # Absent)
     IN  ids \o [i \in DOMAIN present |->
                    [key |-> present[i], val |-> f[present[i]]]] :
        f \in [{TfKeys[i] : i \in DOMAIN TfKeys} -> EnsureValues \cup {Absent}],
        ids \in IdentityChoices}

CorruptText == <<[key |-> TfKeys[1], lex |-> Garbage]>>

\* A file: missing, not parseable, or the text of a document.
FileChoices ==
    {<<>>, <<CorruptText>>} \cup {<<_render_tfvars_local(d)>> : d \in EnsureDocuments}

SecondExampleChoices ==
    {<<>>, <<CorruptText>>,
     <<_render_tfvars_local(<<[key |-> "secret_names", val |-> Str("acr1")]>>)>>}

Envs == {"dev", "qa"}
Subscriptions == {"sub-0", "sub-1"}
Tenants == {"ten-1"}

(***************************************************************************)
(* SpecEnsure: one call of ensure_tfvars on a stack directory.             *)
(***************************************************************************)
InitEnsure ==
    /\ RetryIdle /\ SeedIdle /\ TfIdle /\ OptIdle /\ StageIdle /\ SecretIdle /\ RenderIdle /\ CaptureIdle /\ RouteIdle
    /\ fs \in {f \in [StackFiles -> FileChoices] :
                  f[Candidates[2]] \in SecondExampleChoices}
    /\ env \in Envs
    /\ subscription_id \in Subscriptions
    /\ tenant_id \in Tenants
    /\ ensured = <<>>

EnsureTfvars ==
    /\ ensured = <<>>
    /\ LET r == ensure_tfvars(fs, env, subscription_id, tenant_id)
       IN  /\ fs' = r.fs
           /\ ensured' = <<[before |-> fs, raised |-> r.raised,
                            names |-> r.names, returned |-> r.returned,
                            example |-> r.example]>>
    /\ UNCHANGED <<env, subscription_id, tenant_id>>
    /\ UNCHANGED <<retryVars, seedVars, tfVars, optVars, stageVars, secretVars, renderVars, captureVars, routeVars>>

NextEnsure == EnsureTfvars

SpecEnsure == InitEnsure /\ [][NextEnsure]_vars


(***************************************************************************)
(* State addressing.  A text is a sequence of tokens; "/" is always a      *)
(* token of its own, so a prefix is a sequence over PrefixChars.           *)
(***************************************************************************)
\* Bound: the length of a state prefix.
MaxPrefixLen == 3

PrefixChars == {"e", "/"}
Prefixes == SeqsUpTo(PrefixChars, MaxPrefixLen)

BlobSuffix == <<"/", "terraform.tfstate">>

\* The state_blob_key output of the bootstrap stack: a prefix followed by
\* "/terraform.tfstate", or a key of another shape.
BlobKeys ==
    {pre \o BlobSuffix : pre \in Prefixes} \cup {<<"e">>, <<"terraform.tfstate">>}

EndsWith(text, suffix) ==
    /\ Len(text) >= Len(suffix)
    /\ SubSeq(text, Len(text) - Len(suffix) + 1, Len(text)) = suffix

\* Lines 440-444.
state_prefix_from_blob(blob_key) ==
    IF EndsWith(blob_key, BlobSuffix)
    THEN SubSeq(blob_key, 1, Len(blob_key) - Len(BlobSuffix))
    ELSE blob_key

rstrip_one(text, ch) ==
    IF text # <<>> /\ text[Len(text)] = ch
    THEN SubSeq(text, 1, Len(text) - 1) ELSE text

\* str.rstrip(ch): every trailing ch is removed.
RECURSIVE rstrip(_, _)
rstrip(text, ch) ==
    IF text # <<>> /\ text[Len(text)] = ch
    THEN rstrip(SubSeq(text, 1, Len(text) - 1), ch) ELSE text

\* Lines 447-453.
state_key(prefix, filename) ==
    LET normalized_prefix == rstrip(prefix, "/")
    IN  IF normalized_prefix # <<>>
        THEN normalized_prefix \o <<"/", filename, ".tfstate">>
        ELSE <<filename, ".tfstate">>

(***************************************************************************)
(* Output accessors.  A raw output map (terraform output -json) maps an    *)
(* output name to Absent or to an entry whose "value" is None (null) or a  *)
(* value; a value is [t, v] with v its text as tokens.                     *)
(***************************************************************************)
Text(tokens) == [t |-> "str", v |-> tokens]

\* str(value)
PyStr(value) == value.v

\* outputs.get(key, {}).get("value")
ValueOf(outs, key) ==
    IF key \in DOMAIN outs /\ outs[key] # Absent THEN outs[key] ELSE None

_required_output_or_empty(outs, key) ==
    LET value == ValueOf(outs, key)
    IN  IF value = None THEN [raised |-> "", names |-> "", text |-> <<>>]
        ELSE [raised |-> "", names |-> "", text |-> PyStr(value)]

\* Lines 514-518.
_required_output(outs, key) ==
    LET value == ValueOf(outs, key)
    IN  IF value = None
        THEN [raised |-> "KeyError", names |-> key, text |-> <<>>]
        ELSE [raised |-> "", names |-> "", text |-> PyStr(value)]

\* Lines 521-525.
_optional_output(outs, key) ==
    LET value == ValueOf(outs, key)
    IN  IF value = None THEN [raised |-> "", names |-> "", text |-> <<>>]
        ELSE [raised |-> "", names |-> "", text |-> PyStr(value)]

\* The accessor calls of a *_state_from_outputs, in evaluation order: the
\* field, the accessor, the output name.
BootstrapFields ==
    <<[field |-> "resource_group", required |-> TRUE, key |-> "state_rg_name"],
      [field |-> "storage_account", required |-> TRUE,
       key |-> "storage_account_name"],
      [field |-> "container", required |-> TRUE, key |-> "state_container_name"],
      [field |-> "state_prefix", required |-> TRUE, key |-> "state_blob_key"]>>

FoundationFields ==
    <<[field |-> "location", required |-> TRUE, key |-> "location"],
      [field |-> "platform_resource_group", required |-> TRUE,
       key |-> "platform_resource_group_name"],
      [field |-> "acr_name", required |-> TRUE, key |-> "platform_acr_name"],
      [field |-> "key_vault_name", required |-> FALSE, key |-> "key_vault_name"],
      [field |-> "aca_identity_id", required |-> FALSE,
       key |-> "aca_managed_identity_id"]>>

\* Evaluates the accessor calls from the i-th on; the first that raises ends
\* the construction.  got maps the fields read so far to their text.
RECURSIVE ReadFields(_, _, _, _)
ReadFields(fields, outs, i, got) ==
    IF i > Len(fields)
    THEN [raised |-> "", names |-> "", state |-> <<got>>]
    ELSE LET f == fields[i]
             r == IF f.required THEN _required_output(outs, f.key)
                  ELSE _optional_output(outs, f.key)
         IN  IF r.raised # ""
             THEN [raised |-> r.raised, names |-> r.names, state |-> <<>>]
             ELSE ReadFields(fields, outs, i + 1,
                             got @@ (f.field :> r.text))

\* Lines 456-466.
bootstrap_state_from_outputs(outs) ==
    LET r == ReadFields(BootstrapFields, outs, 1, <<>>)
    IN  IF r.raised # "" THEN r
        ELSE [r EXCEPT !.state =
                <<[r.state[1] EXCEPT !["state_prefix"] =
                      state_prefix_from_blob(@)]>>]

\* Lines 469-478.
foundation_state_from_outputs(outs) ==
    ReadFields(FoundationFields, outs, 1, <<>>)

(***************************************************************************)
(* The stage deployments.  A program is the sequence of the calls a        *)
(* deploy_* function makes, in source order.  A step has the operation, the *)
(* stack it acts on (of), whether it can raise, the state keys it derives  *)
(* (the deriving site, the stack whose state the key addresses, what the   *)
(* key is used for, and the filename literal passed to state_key), and     *)
(* whether it runs only under deploy_e2e.                                  *)
(***************************************************************************)
Step(op, of, raises, keys) ==
    [op |-> op, of |-> of, raises |-> raises, keys |-> keys, e2e |-> FALSE]

KeyOf(site, of, use, filename) ==
    [site |-> site, of |-> of, use |-> use, filename |-> filename]

\* _deploy_common.py 528-537: terraform_init_local and terraform_output on
\* the bootstrap stack.
LoadBootstrapState == Step("load_bootstrap_state", "00-bootstrap", TRUE, {})

LoadFoundationState_bootstrap_key ==
    Step("load_foundation_state", "10-platform", TRUE,
         {KeyOf("_deploy_common.py:566", "10-platform", "read state", "terraform")})

\* _deploy_common.py 556-569: terraform_init_remote and terraform_output on
\* the platform stack.
LoadFoundationState ==
    Step("load_foundation_state", "10-platform", TRUE,
         {KeyOf("_deploy_common.py:566", "10-platform", "read state", "10-platform")})

\* _deploy_common.py 540-553.
LoadObservabilityState ==
    Step("load_observability_state", "05-observability", TRUE,
         {KeyOf("_deploy_common.py:550", "05-observability", "read state",
                "05-observability")})

\* _deploy_common.py 331-350.
ExportFoundationTfEnv(of) ==
    Step("export_foundation_tf_env", of, FALSE,
         {KeyOf("_deploy_common.py:346", "10-platform",
                "TF_VAR_foundation_state_blob_key", "10-platform")})

\* deploy_bootstrap.py 33-49.
BootstrapProgram ==
    <<Step("ensure_tfvars", "00-bootstrap", TRUE, {}),
      Step("export_core_tf_env", "00-bootstrap", FALSE, {}),
      Step("backend_state_path", "00-bootstrap", FALSE, {}),
      Step("terraform_init_local", "00-bootstrap", TRUE, {}),
      Step("terraform_apply", "00-bootstrap", TRUE, {}),
      Step("terraform_output", "00-bootstrap", TRUE, {}),
      Step("bootstrap_state_from_outputs", "00-bootstrap", TRUE, {})>>

\* ops/deploy_observability.py 34-55.
ObservabilityProgram ==
    <<LoadBootstrapState,
      Step("ensure_tfvars", "05-observability", TRUE, {}),
      Step("export_core_tf_env", "05-observability", FALSE, {}),
      Step("state_key", "05-observability", FALSE,
           {KeyOf("deploy_observability.py:53", "05-observability",
                  "init backend", "05-observability")}),
      Step("terraform_init_remote", "05-observability", TRUE, {}),
      Step("terraform_apply", "05-observability", TRUE, {})>>

PlatformProgram_apply_first ==
    <<LoadBootstrapState,
      Step("ensure_tfvars", "10-platform", TRUE, {}),
      Step("export_core_tf_env", "10-platform", FALSE, {}),
      Step("state_key", "10-platform", FALSE,
           {KeyOf("deploy_platform.py:56", "10-platform", "init backend",
                  "10-platform")}),
      Step("terraform_apply", "10-platform", TRUE, {}),
      Step("terraform_init_remote", "10-platform", TRUE, {}),
      Step("terraform_output", "10-platform", TRUE, {}),
      Step("foundation_state_from_outputs", "10-platform", TRUE, {})>>

\* deploy_platform.py 37-61.
PlatformProgram ==
    <<LoadBootstrapState,
      Step("ensure_tfvars", "10-platform", TRUE, {}),
      Step("export_core_tf_env", "10-platform", FALSE, {}),
      Step("state_key", "10-platform", FALSE,
           {KeyOf("deploy_platform.py:56", "10-platform", "init backend",
                  "10-platform")}),
      Step("terraform_init_remote", "10-platform", TRUE, {}),
      Step("terraform_apply", "10-platform", TRUE, {}),
      Step("terraform_output", "10-platform", TRUE, {}),
      Step("foundation_state_from_outputs", "10-platform", TRUE, {})>>

\* deploy_foundry.py 50-109.
FoundryProgram ==
    <<LoadBootstrapState,
      LoadFoundationState,
      Step("ensure_tfvars", "15-foundry", TRUE, {}),
      Step("update_tfvars", "15-foundry", TRUE,
           {KeyOf("deploy_foundry.py:70", "10-platform",
                  "tfvars foundation_state_blob_key", "10-platform")}),
      ExportFoundationTfEnv("15-foundry"),
      Step("state_key", "15-foundry", FALSE,
           {KeyOf("deploy_foundry.py:78", "15-foundry", "init backend",
                  "15-foundry")}),
      Step("terraform_init_remote", "15-foundry", TRUE, {}),
      Step("terraform_apply", "15-foundry", TRUE, {}),
      Step("seed_openai_secrets", "15-foundry", TRUE,
           {KeyOf("_openai_secrets.py:143", "15-foundry", "read state",
                  "15-foundry")})>>

\* deploy_workload.py 57-208.
WorkloadProgram ==
    <<LoadBootstrapState,
      LoadFoundationState,
      LoadObservabilityState,
      Step("ensure_tfvars", "20-workload", TRUE, {}),
      Step("update_tfvars", "20-workload", TRUE,
           {KeyOf("deploy_workload.py:84", "10-platform",
                  "tfvars foundation_state_blob_key", "10-platform"),
            KeyOf("deploy_workload.py:87", "15-foundry",
                  "tfvars openai_state_blob_key", "15-foundry")}),
      ExportFoundationTfEnv("20-workload"),
      Step("_set_env_vars", "20-workload", FALSE, {}),
      Step("_detect_openai_state", "15-foundry", TRUE,
           {KeyOf("deploy_workload.py:225", "15-foundry",
                  "TF_VAR_openai_state_blob_key", "15-foundry")}),
      Step("_sync_environment", "20-workload", TRUE,
           {KeyOf("sync_env.py:181", "15-foundry", "read state", "15-foundry")}),
      Step("update_tfvars", "20-workload", TRUE, {}),
      Step("images", "20-workload", TRUE, {}),
      ExportFoundationTfEnv("20-workload"),
      Step("state_key", "20-workload", FALSE,
           {KeyOf("deploy_workload.py:201", "20-workload", "init backend",
                  "20-workload")}),
      Step("terraform_init_remote", "20-workload", TRUE, {}),
      Step("terraform_apply", "20-workload", TRUE, {}),
      [Step("_emit_toolkit_outputs", "20-workload", TRUE, {}) EXCEPT !.e2e = TRUE],
      Step("_print_gateway_keys", "20-workload", FALSE, {})>>

Stages ==
    {"00-bootstrap", "05-observability", "10-platform", "15-foundry",
     "20-workload", "15-openai"}

\* What _deploy_common.py defines of the names deploy_openai.py imports
\* (lines 9-24 of deploy_openai.py): OpenAIState is not among them.
DeployCommonNames ==
    {"AzureContext", "BootstrapState", "FoundationState", "azure_context",
     "configure_logging", "ensure_tfvars", "export_foundation_tf_env",
     "load_bootstrap_state", "load_foundation_state", "resolve_paths",
     "state_key", "terraform_apply", "terraform_init_remote"}

DeployOpenaiImports == DeployCommonNames \cup {"OpenAIState"}

\* deploy_openai.py 51-81, were the module importable.
OpenaiProgram ==
    <<LoadBootstrapState,
      LoadFoundationState,
      Step("ensure_tfvars", "15-openai", TRUE, {}),
      ExportFoundationTfEnv("15-openai"),
      Step("state_key", "15-openai", FALSE,
           {KeyOf("deploy_openai.py:68", "15-openai", "init backend",
                  "15-openai")}),
      Step("terraform_init_remote", "15-openai", TRUE, {}),
      Step("terraform_apply", "15-openai", TRUE,
           {KeyOf("deploy_openai.py:80", "15-openai",
                  "TF_VAR_openai_state_blob_key", "15-openai")})>>

Program(st) ==
    IF st = "00-bootstrap" THEN BootstrapProgram
    ELSE IF st = "05-observability" THEN ObservabilityProgram
    ELSE IF st = "10-platform" THEN PlatformProgram
    ELSE IF st = "15-foundry" THEN FoundryProgram
    ELSE IF st = "20-workload" THEN WorkloadProgram
    ELSE OpenaiProgram

\* import of the deploy_* module
Importable(st) ==
    st = "15-openai" => DeployOpenaiImports \subseteq DeployCommonNames

\* bootstrap.state_prefix, as load_bootstrap_state builds it (line 465).
StatePrefix == state_prefix_from_blob(state_blob_key)

Current == Program(stage)[spc]

Running ==
    /\ status = "running" /\ Importable(stage)
    /\ spc \in DOMAIN Program(stage)

Runs(st, i) == ~Program(st)[i].e2e \/ deploy_e2e

\* The step after the i-th that runs, Len + 1 when none is left.
NextPc(st, i) ==
    LET later == {j \in (i + 1)..Len(Program(st)) : Runs(st, j)}
    IN  IF later = {} THEN Len(Program(st)) + 1
        ELSE CHOOSE j \in later : \A k \in later : j <= k

\* The state keys the current step derives from bootstrap.state_prefix.
Derived ==
    {[site |-> k.site, of |-> k.of, use |-> k.use, prefix |-> StatePrefix,
      filename |-> k.filename, key |-> state_key(StatePrefix, k.filename)] :
        k \in Current.keys}

Entry(ok) == [op |-> Current.op, of |-> Current.of, ok |-> ok]

\* The current step returns.
Returns ==
    /\ trace' = Append(trace, Entry(TRUE))
    /\ keyUses' = keyUses \cup Derived
    /\ spc' = NextPc(stage, spc)
    /\ status' = IF NextPc(stage, spc) > Len(Program(stage))
                 THEN "returned" ELSE "running"
    /\ UNCHANGED <<stage, state_blob_key, deploy_e2e, stageErr>>

Raises_swallowed(type, names) ==
    /\ trace' = Append(trace, Entry(FALSE))
    /\ keyUses' = keyUses \cup Derived
    /\ spc' = NextPc(stage, spc)
    /\ status' = IF NextPc(stage, spc) > Len(Program(stage))
                 THEN "returned" ELSE "running"
    /\ stageErr' = <<[type |-> type, names |-> names]>>
    /\ UNCHANGED <<stage, state_blob_key, deploy_e2e>>

\* The current step raises; nothing in deploy_* catches it.
Raises(type, names) ==
    /\ trace' = Append(trace, Entry(FALSE))
    /\ keyUses' = keyUses \cup Derived
    /\ status' = "raised"
    /\ stageErr' = <<[type |-> type, names |-> names]>>
    /\ UNCHANGED <<stage, spc, state_blob_key, deploy_e2e>>

\* from ._deploy_common import (...) of deploy_openai.py, lines 9-24.
import_fails ==
    /\ status = "running" /\ ~Importable(stage)
    /\ status' = "raised"
    /\ stageErr' = <<[type |-> "ImportError", names |-> "OpenAIState"]>>
    /\ UNCHANGED <<stage, spc, trace, state_blob_key, deploy_e2e, keyUses,
                   outputs, built, fs, ensured>>

\* deploy_foundry.py 42-48: skip, or the stack directory is missing.
deploy_foundry_skips ==
    /\ Running /\ stage = "15-foundry" /\ spc = 1
    /\ status' = "returned"
    /\ built' = <<[provisioned |-> FALSE, state_blob_key |-> <<>>]>>
    /\ UNCHANGED <<stage, spc, trace, state_blob_key, deploy_e2e, keyUses,
                   outputs, stageErr, fs, ensured>>

\* The ensure_tfvars call of a stage.
ensure_step ==
    /\ Running /\ Current.op = "ensure_tfvars"
    /\ LET r == ensure_tfvars(fs, env, subscription_id, tenant_id)
       IN  /\ fs' = r.fs
           /\ ensured' = <<[before |-> fs, raised |-> r.raised,
                            names |-> r.names, returned |-> r.returned,
                            example |-> r.example]>>
           /\ IF r.raised = "" THEN Returns ELSE Raises(r.raised, r.names)
    /\ UNCHANGED <<outputs, built>>

BackendInits == {"terraform_init_local", "terraform_init_remote"}

backend_init_returns ==
    /\ Running /\ Current.op \in BackendInits
    /\ Returns
    /\ UNCHANGED <<outputs, built, fs, ensured>>

\* terraform_init_local raises CalledProcessError; terraform_init_remote
\* that, or StorageRbacPropagationError once its attempts are used up.
backend_init_raises(type) ==
    /\ Running /\ Current.op \in BackendInits
    /\ type = "StorageRbacPropagationError" =>
          Current.op = "terraform_init_remote"
    /\ Raises(type, "")
    /\ UNCHANGED <<outputs, built, fs, ensured>>

terraform_apply_returns ==
    /\ Running /\ Current.op = "terraform_apply"
    /\ Returns
    /\ UNCHANGED <<outputs, built, fs, ensured>>

terraform_apply_raises(type) ==
    /\ Running /\ Current.op = "terraform_apply"
    /\ Raises(type, "")
    /\ UNCHANGED <<outputs, built, fs, ensured>>

\* terraform_output returns the raw output map m (lines 431-437).
terraform_output_returns(m) ==
    /\ Running /\ Current.op = "terraform_output"
    /\ outputs' = <<m>>
    /\ Returns
    /\ UNCHANGED <<built, fs, ensured>>

terraform_output_raises(type) ==
    /\ Running /\ Current.op = "terraform_output"
    /\ Raises(type, "")
    /\ UNCHANGED <<outputs, built, fs, ensured>>

StateBuilders == {"bootstrap_state_from_outputs", "foundation_state_from_outputs"}

\* bootstrap_state_from_outputs / foundation_state_from_outputs on the map
\* just read.
state_from_outputs ==
    /\ Running /\ Current.op \in StateBuilders
    /\ LET r == IF Current.op = "bootstrap_state_from_outputs"
                THEN bootstrap_state_from_outputs(outputs[1])
                ELSE foundation_state_from_outputs(outputs[1])
       IN  /\ built' = r.state
           /\ IF r.raised = "" THEN Returns ELSE Raises(r.raised, r.names)
    /\ UNCHANGED <<outputs, fs, ensured>>

SpecialOps == {"ensure_tfvars", "terraform_apply", "terraform_output"}
                  \cup BackendInits \cup StateBuilders

\* Any other call of the program returns.
step_returns ==
    /\ Running /\ Current.op \notin SpecialOps
    /\ Returns
    /\ built' = IF stage = "15-foundry" /\ Current.op = "seed_openai_secrets"
                THEN <<[provisioned |-> TRUE,
                        state_blob_key |-> state_key(StatePrefix, "15-foundry")]>>
                ELSE built
    /\ UNCHANGED <<outputs, fs, ensured>>

\* Any other call that runs an external command or reads a file raises.
step_raises(type) ==
    /\ Running /\ Current.op \notin SpecialOps /\ Current.raises
    /\ Raises(type, "")
    /\ UNCHANGED <<outputs, built, fs, ensured>>

\* The raw output maps terraform_output may return for the stack: every
\* output the stage reads is absent, null or a value.
OutputChoices == {Absent, None, Text(<<"v1">>)}

BootstrapOutputs ==
    {[state_rg_name |-> a, storage_account_name |-> b,
      state_container_name |-> c, state_blob_key |-> d] :
        a \in OutputChoices, b \in OutputChoices, c \in OutputChoices,
        d \in {Absent, None, Text(state_blob_key)}}

FoundationOutputs ==
    {[location |-> a, platform_resource_group_name |-> b,
      platform_acr_name |-> c, key_vault_name |-> d,
      aca_managed_identity_id |-> e] :
        a \in OutputChoices \cup {Num("1")}, b \in OutputChoices,
        c \in OutputChoices, d \in OutputChoices \cup {Text(<<>>)},
        e \in OutputChoices}

OutputMaps(st) ==
    IF st = "00-bootstrap" THEN BootstrapOutputs ELSE FoundationOutputs

PlainDocument == <<[key |-> "platform_acr_name", val |-> Str("acr1")]>>

\* The stack directory before the deployment: nothing; only an example;
\* only the target; a target and an example neither of which parses.
StageFsChoices ==
    LET none == [name \in StackFiles |-> <<>>]
    IN  {none,
         [none EXCEPT ![Candidates[1]] = <<_render_tfvars_local(PlainDocument)>>],
         [none EXCEPT ![Target] = <<_render_tfvars_local(PlainDocument)>>],
         [none EXCEPT ![Target] = <<CorruptText>>,
                      ![Candidates[2]] = <<CorruptText>>]}

Raisable == {"CalledProcessError"}

(***************************************************************************)
(* SpecStage: one stage deployment, from the call of deploy_* to its       *)
(* return or to the exception that ends it.                                *)
(***************************************************************************)
InitStage ==
    /\ RetryIdle /\ SeedIdle /\ TfIdle /\ OptIdle /\ SecretIdle /\ RenderIdle /\ CaptureIdle /\ RouteIdle
    /\ stage \in Stages
    /\ spc = 1 /\ status = "running" /\ trace = <<>>
    /\ state_blob_key \in BlobKeys
    /\ deploy_e2e \in BOOLEAN
    /\ deploy_e2e => stage = "20-workload"
    /\ keyUses = {} /\ outputs = <<>> /\ built = <<>> /\ stageErr = <<>>
    /\ fs \in StageFsChoices
    /\ env = "dev" /\ subscription_id = "sub-1" /\ tenant_id = "ten-1"
    /\ ensured = <<>>

StageFrame ==
    UNCHANGED <<retryVars, seedVars, tfVars, optVars, env, subscription_id,
                tenant_id, secretVars, renderVars, captureVars, routeVars>>

ImportFails == import_fails /\ StageFrame
DeployFoundrySkips == deploy_foundry_skips /\ StageFrame
EnsureStep == ensure_step /\ StageFrame
BackendInitReturns == backend_init_returns /\ StageFrame
BackendInitRaises ==
    /\ \E type \in {"CalledProcessError", "StorageRbacPropagationError"} :
          backend_init_raises(type)
    /\ StageFrame
ApplyReturns == terraform_apply_returns /\ StageFrame
ApplyRaises ==
    /\ \E type \in {"CalledProcessError", "RequestConflictError"} :
          terraform_apply_raises(type)
    /\ StageFrame
OutputReturns ==
    /\ Running /\ Current.op = "terraform_output"
    /\ \E m \in OutputMaps(stage) : terraform_output_returns(m)
    /\ StageFrame
OutputRaises ==
    /\ \E type \in {"CalledProcessError", "JSONDecodeError"} :
          terraform_output_raises(type)
    /\ StageFrame
StateFromOutputs == state_from_outputs /\ StageFrame
StepReturns == step_returns /\ StageFrame
StepRaises ==
    /\ \E type \in Raisable : step_raises(type)
    /\ StageFrame

NextStage ==
    \/ ImportFails
    \/ DeployFoundrySkips
    \/ EnsureStep
    \/ BackendInitReturns
    \/ BackendInitRaises
    \/ ApplyReturns
    \/ ApplyRaises
    \/ OutputReturns
    \/ OutputRaises
    \/ StateFromOutputs
    \/ StepReturns
    \/ StepRaises

SpecStage == InitStage /\ [][NextStage]_vars


(***************************************************************************)
(* run_logged with capture_output=True (ops/_utils.py, lines 52-113).  The *)
(* child writes lines to its stdout and stderr, each a pipe that holds a   *)
(* bounded number of lines: a write to a full pipe blocks.  A _reader      *)
(* thread per pipe moves lines into its buffer until the pipe is empty and *)
(* the child has exited (readline returns "").  The calling thread starts  *)
(* the two threads, waits for the child, joins the threads and builds the  *)
(* result.                                                                 *)
(***************************************************************************)
Streams == {"stdout", "stderr"}

\* Bound: the lines a pipe holds before a write to it blocks.
PipeCapacity == 1

\* Bound: the writes of the child.
MaxWrites == 3

Scripts ==
    UNION {{[i \in 1..n |-> [stream |-> f[i], line |-> i]] : f \in [1..n -> Streams]} :
              n \in 0..MaxWrites}

\* The lines of a script that go to one stream, in the order written.
RECURSIVE LinesOf(_, _)
LinesOf(scr, s) ==
    IF scr = <<>> THEN <<>>
    ELSE IF Head(scr).stream = s THEN <<Head(scr).line>> \o LinesOf(Tail(scr), s)
    ELSE LinesOf(Tail(scr), s)

\* The child writes its next line; it blocks while that pipe is full.
child_writes ==
    /\ returncode = <<>> /\ nwritten < Len(script)
    /\ LET w == script[nwritten + 1]
       IN  /\ Len(pipes[w.stream]) < PipeCapacity
           /\ pipes' = [pipes EXCEPT ![w.stream] = Append(@, w.line)]
    /\ nwritten' = nwritten + 1
    /\ UNCHANGED <<script, returncode, threads, bufs, mpc, check, completed>>

\* The child exits, which closes the write ends of both pipes.
child_exits(rc) ==
    /\ returncode = <<>> /\ nwritten = Len(script)
    /\ returncode' = <<rc>>
    /\ UNCHANGED <<script, nwritten, pipes, threads, bufs, mpc, check, completed>>

\* Lines 84-85: thread.start(), stdout's thread first.
thread_start ==
    /\ mpc \in {"start stdout", "start stderr"}
    /\ LET s == IF mpc = "start stdout" THEN "stdout" ELSE "stderr"
       IN  threads' = [threads EXCEPT ![s] = "started"]
    /\ mpc' = IF mpc = "start stdout" THEN "start stderr" ELSE "wait"
    /\ UNCHANGED <<script, nwritten, pipes, returncode, bufs, check, completed>>

\* Lines 66-67: readline returned a line; buffer.append(line).
_reader_appends(s) ==
    /\ threads[s] = "started" /\ pipes[s] # <<>>
    /\ bufs' = [bufs EXCEPT ![s] = Append(@, Head(pipes[s]))]
    /\ pipes' = [pipes EXCEPT ![s] = Tail(@)]
    /\ UNCHANGED <<script, nwritten, returncode, threads, mpc, check, completed>>

\* Lines 66, 71: readline returned "" (end of file); stream.close().
_reader_finishes(s) ==
    /\ threads[s] = "started" /\ pipes[s] = <<>> /\ returncode # <<>>
    /\ threads' = [threads EXCEPT ![s] = "finished"]
    /\ UNCHANGED <<script, nwritten, pipes, returncode, bufs, mpc, check, completed>>

\* Line 87: proc.wait() returns once the child has exited.
proc_wait ==
    /\ mpc = "wait" /\ returncode # <<>>
    /\ mpc' = "join stdout"
    /\ UNCHANGED <<script, nwritten, pipes, returncode, threads, bufs, check,
                   completed>>

thread_join_without_waiting(s) == TRUE

\* thread.join() returns once the thread has finished.
thread_join(s) == threads[s] = "finished"

\* Lines 88-89.
join_threads ==
    /\ mpc \in {"join stdout", "join stderr"}
    /\ thread_join(IF mpc = "join stdout" THEN "stdout" ELSE "stderr")
    /\ mpc' = IF mpc = "join stdout" THEN "join stderr" ELSE "build"
    /\ UNCHANGED <<script, nwritten, pipes, returncode, threads, bufs, check,
                   completed>>

\* Lines 99-113: join the buffers; CalledProcessError or CompletedProcess.
build_result ==
    /\ mpc = "build"
    /\ completed' =
          <<[raised |-> check /\ returncode[1] # 0, returncode |-> returncode[1],
             stdout |-> bufs["stdout"], stderr |-> bufs["stderr"]]>>
    /\ mpc' = "done"
    /\ UNCHANGED <<script, nwritten, pipes, returncode, threads, bufs, check>>

(***************************************************************************)
(* SpecCapture: one call of run_logged(cmd, capture_output=True), from the *)
(* return of Popen on.                                                     *)
(***************************************************************************)
InitCapture ==
    /\ RetryIdle /\ SeedIdle /\ TfIdle /\ OptIdle /\ EnsureIdle /\ StageIdle /\ RouteIdle
    /\ SecretIdle /\ RenderIdle
    /\ script \in Scripts
    /\ nwritten = 0
    /\ pipes = [s \in Streams |-> <<>>]
    /\ returncode = <<>>
    /\ threads = [s \in Streams |-> "new"]
    /\ bufs = [s \in Streams |-> <<>>]
    /\ mpc = "start stdout"
    /\ check \in BOOLEAN
    /\ completed = <<>>

CaptureFrame ==
    UNCHANGED <<retryVars, seedVars, tfVars, optVars, ensureVars, stageVars,
                secretVars, renderVars, routeVars>>

ChildWrites == child_writes /\ CaptureFrame
ChildExits == (\E rc \in {0, 1} : child_exits(rc)) /\ CaptureFrame
ThreadStart == thread_start /\ CaptureFrame
ReaderAppends == (\E s \in Streams : _reader_appends(s)) /\ CaptureFrame
ReaderFinishes == (\E s \in Streams : _reader_finishes(s)) /\ CaptureFrame
ProcWait == proc_wait /\ CaptureFrame
JoinThreads == join_threads /\ CaptureFrame
BuildResult == build_result /\ CaptureFrame

NextCapture ==
    \/ ChildWrites
    \/ ChildExits
    \/ ThreadStart
    \/ ReaderAppends
    \/ ReaderFinishes
    \/ ProcWait
    \/ JoinThreads
    \/ BuildResult

SpecCapture == InitCapture /\ [][NextCapture]_vars

(***************************************************************************)
(* update_latency_route_weights (gateway_config_api/service.py).  A string *)
(* is [s, up]: its letters in lower case and whether it is spelled with    *)
(* capitals; str.lower() drops the capitals.  An instance is a mapping     *)
(* whose id, name and override.endpoint each are <<>> (no such key, or a  *)
(* value that is not a string) or <<string>>, and whose weight is <<>> or  *)
(* <<number>>.  Indices count from 1 (Python's from 0).                    *)
(***************************************************************************)
Text2(letters, up) == [s |-> letters, up |-> up]
str_lower(x) == [x EXCEPT !.up = FALSE]

Instance(id, name, endpoint, weight) ==
    [id |-> id, name |-> name, endpoint |-> endpoint, weight |-> weight]

_matches_identifier_case_sensitive(inst, target) ==
    \/ inst.id # <<>> /\ inst.id[1] = target
    \/ inst.name # <<>> /\ inst.name[1] = target
    \/ inst.endpoint # <<>> /\ inst.endpoint[1] = target

\* Lines 21-32.
_matches_identifier(inst, target) ==
    LET target_lower == str_lower(target)
    IN  \/ inst.id # <<>> /\ str_lower(inst.id[1]) = target_lower
        \/ inst.name # <<>> /\ str_lower(inst.name[1]) = target_lower
        \/ inst.endpoint # <<>> /\ str_lower(inst.endpoint[1]) = target_lower

_select_primary_index_by_instance(instances, preferred) ==
    IF \E idx \in DOMAIN instances : \E p \in DOMAIN preferred :
          _matches_identifier(instances[idx], preferred[p])
    THEN CHOOSE idx \in DOMAIN instances :
            /\ \E p \in DOMAIN preferred :
                  _matches_identifier(instances[idx], preferred[p])
            /\ \A j \in 1..(idx - 1) : \A p \in DOMAIN preferred :
                  ~_matches_identifier(instances[j], preferred[p])
    ELSE 1

\* Lines 35-42, for a non-empty list: the outer loop is over the
\* preferences, the inner one over the instances.
RECURSIVE _select_primary_index(_, _)
_select_primary_index(instances, preferred) ==
    IF preferred = <<>> THEN 1
    ELSE LET pref == Head(preferred)
             hits == {idx \in DOMAIN instances :
                         _matches_identifier(instances[idx], pref)}
         IN  IF hits # {}
             THEN CHOOSE idx \in hits : \A j \in hits : idx <= j
             ELSE _select_primary_index(instances, Tail(preferred))

\* Lines 78-86: the weights after the loop, and how many were assigned.
reweighted(instances, primary_idx) ==
    [idx \in DOMAIN instances |->
        [instances[idx] EXCEPT
            !.weight = <<IF idx = primary_idx THEN 100 ELSE 0>>]]

\* One call on the config file.  An empty instance list makes
\* _select_primary_index raise (lines 36-37) before anything is written;
\* otherwise _atomic_write replaces the file with the dump of the updated
\* data, so the next call loads these instances.
update_latency_route_weights ==
    /\ Len(route_calls) < 2
    /\ IF conf = <<>>
       THEN /\ route_calls' = Append(route_calls,
                  [raised |-> "ConfigUpdateError", changed |-> 0, primary |-> 0,
                   before |-> conf, after |-> conf])
            /\ UNCHANGED conf
       ELSE LET primary_idx == _select_primary_index(conf, preferred_backends)
                after == reweighted(conf, primary_idx)
                changed == Cardinality({idx \in DOMAIN conf :
                                          conf[idx].weight # after[idx].weight})
            IN  /\ conf' = after
                /\ route_calls' = Append(route_calls,
                      [raised |-> "", changed |-> changed, primary |-> primary_idx,
                       before |-> conf, after |-> after])
    /\ UNCHANGED preferred_backends

(***************************************************************************)
(* SpecRoute: update_latency_route_weights called, and called again with   *)
(* the same preferences.                                                   *)
(***************************************************************************)
\* Bound: instances of the route.
MaxInstances == 3

\* Bound: preferred identifiers of a request.
MaxPreferred == 2

InstanceChoices ==
    {Instance(<<Text2("a", TRUE)>>, <<>>, <<>>, <<100>>),
     Instance(<<Text2("a", TRUE)>>, <<>>, <<>>, <<0>>),
     Instance(<<>>, <<Text2("b", FALSE)>>, <<Text2("https://b", FALSE)>>, <<>>),
     Instance(<<>>, <<Text2("b", FALSE)>>, <<Text2("https://b", FALSE)>>, <<0>>),
     Instance(<<Text2("c", FALSE)>>, <<Text2("a", FALSE)>>, <<>>, <<100>>),
     Instance(<<Text2("c", FALSE)>>, <<Text2("a", FALSE)>>, <<>>, <<1>>)}

PreferredChoices ==
    {Text2("a", FALSE), Text2("https://b", TRUE), Text2("zzz", FALSE)}

InitRoute ==
    /\ RetryIdle /\ SeedIdle /\ TfIdle /\ OptIdle /\ EnsureIdle /\ StageIdle
    /\ SecretIdle /\ RenderIdle /\ CaptureIdle
    /\ conf \in SeqsUpTo(InstanceChoices, MaxInstances)
    /\ preferred_backends \in SeqsUpTo(PreferredChoices, MaxPreferred)
    /\ route_calls = <<>>

UpdateLatencyRouteWeights ==
    /\ update_latency_route_weights
    /\ UNCHANGED <<retryVars, seedVars, tfVars, optVars, ensureVars, stageVars,
                   secretVars, renderVars, captureVars>>

NextRoute == UpdateLatencyRouteWeights

SpecRoute == InitRoute /\ [][NextRoute]_vars

(***************************************************************************)
(* The readers of the optional 15-foundry state: _detect_openai_state of   *)
(* the workload stage and _load_foundry_outputs of the secret reconciler.  *)
(* Both run terraform_init_remote and then terraform_output.               *)
(***************************************************************************)
\* Lines 220-222 of deploy_workload.py, then the call of line 227.
_detect_openai_state(skip_openai, exists) ==
    /\ reader = "none"
    /\ reader' = "detect"
    /\ IF skip_openai \/ ~exists
       THEN opc' = "done" /\ outcome' = "absent" /\ UNCHANGED retryVars
       ELSE opc' = "init" /\ outcome' = "none" /\ Begin("init")

\* Lines 130-134 of _openai_secrets.py, then the call of line 137.
_load_foundry_outputs(exists) ==
    /\ reader = "none"
    /\ reader' = "load"
    /\ IF ~exists
       THEN opc' = "done" /\ outcome' = "absent" /\ UNCHANGED retryVars
       ELSE opc' = "init" /\ outcome' = "none" /\ Begin("init")

\* The exception types each reader's except clause catches:
\* `except subprocess.CalledProcessError` and `except Exception`.
Catches(r, type) == IF r = "detect" THEN type = "CalledProcessError" ELSE TRUE

\* terraform_init_remote is over: it raised into the reader's try block, or
\* it returned and terraform_output is next.
after_init ==
    /\ opc = "init" /\ rpc = "done"
    /\ IF returned
       THEN opc' = "output" /\ UNCHANGED outcome
       ELSE /\ opc' = "done"
            /\ outcome' = IF Catches(reader, raised[1].type) THEN "absent"
                          ELSE "aborted"
    /\ UNCHANGED <<reader, retryVars>>

\* terraform_output: run_logged raises CalledProcessError, or json.loads
\* raises JSONDecodeError, or the outputs are returned.
terraform_output(result) ==
    /\ opc = "output"
    /\ opc' = "done"
    /\ outcome' = IF result = "ok" THEN "present"
                  ELSE IF Catches(reader, result) THEN "absent"
                  ELSE "aborted"
    /\ UNCHANGED <<reader, retryVars>>

(***************************************************************************)
(* SpecOptional: one read of the 15-foundry state by either reader.        *)
(***************************************************************************)
InitOptional == RetryIdle /\ SeedIdle /\ TfIdle /\ OptIdle /\ EnsureIdle /\ StageIdle /\ SecretIdle /\ RenderIdle /\ CaptureIdle /\ RouteIdle

DetectOpenaiState ==
    /\ \E skip_openai \in BOOLEAN, exists \in BOOLEAN :
          _detect_openai_state(skip_openai, exists)
    /\ UNCHANGED <<seedVars, tfVars, ensureVars, stageVars, secretVars, renderVars, captureVars, routeVars>>

LoadFoundryOutputs ==
    /\ \E exists \in BOOLEAN : _load_foundry_outputs(exists)
    /\ UNCHANGED <<seedVars, tfVars, ensureVars, stageVars, secretVars, renderVars, captureVars, routeVars>>

FoundryInitOk ==
    /\ opc = "init"
    /\ terraform_init_remote_ok
    /\ UNCHANGED <<seedVars, tfVars, optVars, ensureVars, stageVars, secretVars, renderVars, captureVars, routeVars>>

FoundryInitFail ==
    /\ opc = "init"
    /\ terraform_init_remote_fail
    /\ UNCHANGED <<seedVars, tfVars, optVars, ensureVars, stageVars, secretVars, renderVars, captureVars, routeVars>>

AfterInit == after_init /\ UNCHANGED <<seedVars, tfVars, ensureVars, stageVars, secretVars, renderVars, captureVars, routeVars>>

TerraformOutput ==
    /\ \E result \in {"ok", "CalledProcessError", "JSONDecodeError"} :
          terraform_output(result)
    /\ UNCHANGED <<seedVars, tfVars, ensureVars, stageVars, secretVars, renderVars, captureVars, routeVars>>

NextOptional ==
    \/ DetectOpenaiState
    \/ LoadFoundryOutputs
    \/ FoundryInitOk
    \/ FoundryInitFail
    \/ AfterInit
    \/ TerraformOutput

SpecOptional == InitOptional /\ [][NextOptional]_vars


(***************************************************************************)
(* Claims about seed_openai_secrets (SpecSeed).                            *)
(***************************************************************************)
Range(seq) == {seq[i] : i \in DOMAIN seq}

TaggedFoundry(v, n) == v[n] # <<>> /\ v[n][1].source = "foundry"

\* C1: in a call without real provisioned values, a candidate whose secret is
\* tagged source = "foundry" with a value V other than the placeholder gets no
\* set operation, the vault holds V and the foundry tag after the call, and a
\* call that returns reports the name in 'skipped'.
C1_NoDowngrade ==
    \A k \in DOMAIN calls : \A n \in Range(calls[k].names) :
        LET c == calls[k]
        IN  (/\ ~c.real
             /\ TaggedFoundry(c.before, n)
             /\ c.before[n][1].value # placeholder) =>
                /\ \A i \in DOMAIN c.sets : c.sets[i].name # n
                /\ c.after[n] = c.before[n]
                /\ c.error = "" => /\ n \in Range(c.summary.skipped)
                                   /\ n \notin Range(c.summary.placeholders)

C1_Witness ==
    /\ calls # <<>>
    /\ ~calls[1].real /\ calls[1].error = ""
    /\ calls[1].summary.skipped = <<"azure-openai-key-0">>
    /\ calls[1].summary.placeholders = <<"azure-openai-key-1">>
    /\ calls[1].before["azure-openai-key-0"] = <<Secret("key-A", "foundry")>>
    /\ vault["azure-openai-key-0"] = <<Secret("key-A", "foundry")>>

\* Two calls that both returned, with nobody else writing in between.
CalledTwice ==
    /\ Len(calls) = 2
    /\ calls[1].error = "" /\ calls[2].error = ""
    /\ calls[2].tampered = calls[1].tampered

\* C2 as stated: the second of two such calls returns seeded = [],
\* placeholders = [], skipped = [] and unchanged = all candidate names, and
\* issues no set operation.
C2_SecondCallAllUnchanged ==
    CalledTwice =>
        /\ calls[2].sets = <<>>
        /\ calls[2].summary =
              [seeded |-> <<>>, placeholders |-> <<>>, skipped |-> <<>>,
               unchanged |-> calls[2].names]

\* No candidate name is listed twice with two different provisioned values.
OneValuePerName ==
    foundry # <<>> =>
        \A i, j \in DOMAIN foundry[1].names :
            (/\ foundry[1].names[i] = foundry[1].names[j]
             /\ i \in DOMAIN foundry[1].values
             /\ j \in DOMAIN foundry[1].values) =>
                foundry[1].values[i] = foundry[1].values[j]

\* C2 amended: when no candidate name is listed twice with different
\* provisioned values, the second of two such calls issues no set operation,
\* leaves the vault as it was, and returns seeded = [], placeholders = [],
\* skipped = the candidates whose secret is tagged source = "foundry" while
\* has_real_values is false (the same list the first call skipped), and
\* unchanged = all the other candidate names.
C2_SecondCallWritesNothing ==
    (CalledTwice /\ OneValuePerName) =>
        LET c == calls[2]
            Kept(n) == ~c.real /\ TaggedFoundry(c.before, n)
            Other(n) == ~Kept(n)
        IN  /\ c.sets = <<>>
            /\ c.after = c.before
            /\ c.summary.seeded = <<>>
            /\ c.summary.placeholders = <<>>
            /\ c.summary.skipped = SelectSeq(c.names, Kept)
            /\ c.summary.skipped = calls[1].summary.skipped
            /\ c.summary.unchanged = SelectSeq(c.names, Other)

C2_Witness ==
    /\ CalledTwice /\ OneValuePerName
    /\ calls[1].sets # <<>>
    /\ calls[2].summary.skipped # <<>>
    /\ calls[2].summary.unchanged # <<>>

\* C10: has_real_values holds iff there is at least one provisioned name and
\* as many provisioned values as names; with differing counts the call does
\* not fail on the mismatch, runs without real values, writes only the
\* placeholder with tag 'pending', and never indexes the provisioned values.
C10_LengthMismatch ==
    \A k \in DOMAIN calls :
        LET c == calls[k]
            pn == IF foundry # <<>> THEN foundry[1].names ELSE <<>>
            pv == IF foundry # <<>> THEN foundry[1].values ELSE <<>>
        IN  /\ c.real <=> (Len(pn) > 0 /\ Len(pn) = Len(pv))
            /\ Len(pn) # Len(pv) =>
                  /\ ~c.real
                  /\ c.error # "IndexError"
                  /\ c.indexed = {}
                  /\ c.summary.seeded = <<>>
                  /\ \A i \in DOMAIN c.sets :
                        /\ c.sets[i].value = placeholder
                        /\ c.sets[i].source = "pending"

C10_Witness ==
    /\ calls # <<>> /\ foundry # <<>>
    /\ Len(foundry[1].names) = 2 /\ Len(foundry[1].values) = 1
    /\ calls[1].error = ""
    /\ Len(calls[1].summary.placeholders) = 2

\* The upstream stage exposes a different number of names than of values.
CountsDiffer ==
    foundry # <<>> /\ Len(foundry[1].names) # Len(foundry[1].values)

C27_NoPlaceholderWrites ==
    ~allow =>
        \A k \in DOMAIN calls : \A i \in DOMAIN calls[k].sets :
            /\ calls[k].sets[i].value # placeholder
            /\ calls[k].sets[i].source # "pending"

\* The call as deploy_foundry makes it (no expected names, placeholders
\* disabled) on a vault without secrets, with two names and one value
\* upstream, has written the placeholder under both names.
C27_PlaceholdersWrittenAnyway ==
    /\ ~allow /\ expected = <<>> /\ calls # <<>>
    /\ foundry # <<>> /\ Len(foundry[1].names) = 2 /\ Len(foundry[1].values) = 1
    /\ calls[1].error = ""
    /\ \A n \in SecretNames :
          /\ calls[1].before[n] = <<>>
          /\ calls[1].after[n] = <<Secret(PLACEHOLDER_VALUE, "pending")>>

ProvisionedNames == IF foundry # <<>> THEN foundry[1].names ELSE <<>>
ProvisionedValues == IF foundry # <<>> THEN foundry[1].values ELSE <<>>

FirstAt(seq, x) == CHOOSE i \in DOMAIN seq :
                      seq[i] = x /\ \A j \in 1..(i - 1) : seq[j] # x

\* names is seq without its repeats, in the order of first occurrence.
IsDedupeOf(names, seq) ==
    /\ Range(names) = Range(seq)
    /\ \A i, j \in DOMAIN names :
          i < j => FirstAt(seq, names[i]) < FirstAt(seq, names[j])

\* C21: the candidate names of a call are the provisioned names when there
\* are any; otherwise the expected names without repeats, in the order of
\* first occurrence; otherwise the fallback name alone, and only when
\* allow_placeholders is true; with no candidate the call returns four empty
\* buckets and neither shows nor sets a secret.
C21_CandidateNames ==
    \A k \in DOMAIN calls :
        LET c == calls[k]
        IN  /\ ProvisionedNames # <<>> => c.names = ProvisionedNames
            /\ (ProvisionedNames = <<>> /\ expected # <<>>) =>
                  IsDedupeOf(c.names, expected)
            /\ (ProvisionedNames = <<>> /\ expected = <<>>) =>
                  c.names = IF allow THEN <<FallbackName>> ELSE <<>>
            /\ c.names = <<>> =>
                  /\ c.error = ""
                  /\ c.summary = EmptySummary
                  /\ c.reads = <<>> /\ c.sets = <<>>
                  /\ c.after = c.before

C21_Witness ==
    /\ calls # <<>>
    /\ foundry # <<>> /\ ProvisionedNames = <<>> /\ ProvisionedValues # <<>>
    /\ Len(expected) = 3
    /\ calls[1].names = <<"azure-openai-key-1", "azure-openai-key-0">>
    /\ calls[1].reads = calls[1].names

\* C22: every set operation of a call writes, for the candidate at its
\* position, the provisioned value of that position with source = "foundry"
\* when has_real_values holds, and the placeholder value with source =
\* "pending" otherwise; the name is then listed in 'seeded' when
\* has_real_values holds and in 'placeholders' otherwise, never in the other
\* one; and no set operation carries the placeholder value with the foundry
\* tag.
C22_WriteProvenance ==
    \A k \in DOMAIN calls : \A i \in DOMAIN calls[k].sets :
        LET c == calls[k]
            op == c.sets[i]
            real == Len(ProvisionedNames) > 0
                    /\ Len(ProvisionedNames) = Len(ProvisionedValues)
        IN  /\ op.name = c.names[op.idx]
            /\ real => /\ op.source = "foundry"
                       /\ op.value = ProvisionedValues[op.idx]
                       /\ op.name \in Range(c.summary.seeded)
                       /\ op.name \notin Range(c.summary.placeholders)
            /\ ~real => /\ op.source = "pending"
                        /\ op.value = placeholder
                        /\ op.name \in Range(c.summary.placeholders)
                        /\ op.name \notin Range(c.summary.seeded)
            /\ ~(op.value = placeholder /\ op.source = "foundry")
            /\ c.after[op.name] # <<>>
            /\ c.after[op.name][1].source = op.source

Distinct(seq) == \A i, j \in DOMAIN seq : seq[i] = seq[j] => i = j

\* C28: when a call returns, the four buckets together hold as many names as
\* there are candidates, every candidate position being reported in exactly
\* one of them (a name is listed once per position it has); the number of
\* set operations equals len(seeded) + len(placeholders); and 'seeded' and
\* 'placeholders' are not both non-empty.
C28_BucketPartition ==
    \A k \in DOMAIN calls :
        LET c == calls[k]
            sm == c.summary
            Buckets == {"seeded", "placeholders", "unchanged", "skipped"}
            Count(seq, n) == Cardinality({i \in DOMAIN seq : seq[i] = n})
        IN  c.error = "" =>
              /\ Len(sm.seeded) + Len(sm.placeholders) + Len(sm.unchanged)
                    + Len(sm.skipped) = Len(c.names)
              /\ \A n \in SecretNames :
                    Count(sm.seeded, n) + Count(sm.placeholders, n)
                      + Count(sm.unchanged, n) + Count(sm.skipped, n)
                        = Count(c.names, n)
              /\ Distinct(c.names) =>
                    \A n \in Range(c.names) :
                        Cardinality({b \in Buckets : n \in Range(sm[b])}) = 1
              /\ Len(c.sets) = Len(sm.seeded) + Len(sm.placeholders)
              /\ sm.seeded = <<>> \/ sm.placeholders = <<>>

C28_Witness ==
    /\ calls # <<>> /\ calls[1].error = "" /\ calls[1].real
    /\ calls[1].names = <<"azure-openai-key-0", "azure-openai-key-0">>
    /\ calls[1].summary.seeded = <<"azure-openai-key-0">>
    /\ calls[1].summary.unchanged = <<"azure-openai-key-0">>

\* C29: when the upstream stage provides as many values as names, the names
\* all different, and a call returns, then at its return the vault holds, for
\* every position i, the provisioned value i under name i with source =
\* "foundry", whatever it held before.
C29_ConvergenceWithRealValues ==
    \A k \in DOMAIN calls :
        (/\ calls[k].error = ""
         /\ Len(ProvisionedNames) = Len(ProvisionedValues)
         /\ Distinct(ProvisionedNames)) =>
            \A i \in DOMAIN ProvisionedNames :
                calls[k].after[ProvisionedNames[i]] =
                    <<Secret(ProvisionedValues[i], "foundry")>>

C29_Witness ==
    /\ calls # <<>> /\ calls[1].error = ""
    /\ ProvisionedNames = <<"azure-openai-key-0", "azure-openai-key-1">>
    /\ ProvisionedValues = <<"key-B", "key-A">>
    /\ calls[1].before["azure-openai-key-0"] = <<Secret("key-A", "foundry")>>
    /\ calls[1].before["azure-openai-key-1"] = <<Secret("key-B", "")>>
    /\ calls[1].after["azure-openai-key-0"] = <<Secret("key-B", "foundry")>>
    /\ calls[1].after["azure-openai-key-1"] = <<Secret("key-A", "foundry")>>

C22_Witness ==
    /\ calls # <<>> /\ calls[1].real /\ calls[1].error = ""
    /\ calls[1].before["azure-openai-key-1"] =
          <<Secret(PLACEHOLDER_VALUE, "pending")>>
    /\ Len(calls[1].sets) = 2
    /\ calls[1].sets[2] = [name |-> "azure-openai-key-1", value |-> "key-B",
                           source |-> "foundry", idx |-> 2]
    /\ calls[1].summary.seeded = calls[1].names


(***************************************************************************)
(* Claims about the retried terraform calls (SpecRetry).                   *)
(***************************************************************************)
\* The failure kind the policy retries, read off the output as the
\* classification table of the specification gives it.
TargetKind(p, cpe) ==
    IF p = "init"
    THEN "rbac" \in Marks(cpe)
    ELSE "conflict" \in Marks(cpe) /\ Marks(cpe) \cap {"exclusion", "fatal"} = {}

\* The call ended by raising on a failed run of the policy's target kind.
Exhausted ==
    /\ rpc = "done" /\ raised # <<>> /\ lastExc # <<>>
    /\ TargetKind(policy, lastExc[1])

AttemptLimit == IF policy = "init" THEN 8 ELSE 5

\* C3 as stated: once every run failed with the target kind (RequestConflict
\* for apply, StorageRbacPropagation for init), the command has run exactly
\* 5 (apply) or 8 (init) times and the error raised to the caller is the
\* original error of the failed run, unmodified, carrying its captured output.
C3_RaisesOriginalError ==
    Exhausted => invocations = AttemptLimit /\ raised = lastExc

\* C3 amended: on exhaustion the command has run exactly 5 (apply) or 8 (init)
\* times and the caller gets a RequestConflictError (apply) or a
\* StorageRbacPropagationError (init) whose message is str() of the last
\* run's CalledProcessError and that carries no captured output itself; the
\* CalledProcessError of the last run, with its output, is its __cause__.
C3_RaisesPropagationError ==
    Exhausted =>
        /\ invocations = AttemptLimit
        /\ Len(sleeps) = AttemptLimit - 1
        /\ raised[1].type =
              (IF policy = "init" THEN "StorageRbacPropagationError"
                                  ELSE "RequestConflictError")
        /\ raised[1].cause = lastExc
        /\ raised[1].args = StrOf(lastExc[1])
        /\ raised[1].stderr = <<>> /\ raised[1].output = <<>>

C3_Witness == Exhausted /\ policy = "apply" /\ lastExc[1].stderr # <<>>

\* C4: a failed apply whose output has both a conflict marker and a fatal
\* marker (any letter case) is never retried: no such failure is ever followed
\* by a sleep, the CalledProcessError itself surfaces, and when it is the
\* first failure the command has run exactly once.
BothMarkers(cpe) == {"conflict", "fatal"} \subseteq Marks(cpe)

C4_FatalPrecedence ==
    policy = "apply" =>
        /\ retriedMarks # <<>> => ~({"conflict", "fatal"} \subseteq retriedMarks[1])
        /\ (rpc = "done" /\ lastExc # <<>> /\ BothMarkers(lastExc[1])) =>
              /\ raised = lastExc
              /\ Len(sleeps) = invocations - 1
              /\ (retriedMarks = <<>> => invocations = 1)

C4_Witness ==
    /\ policy = "apply" /\ rpc = "done" /\ lastExc # <<>>
    /\ Marks(lastExc[1]) = {"conflict", "fatal"}
    /\ invocations = 1
    /\ \E i \in DOMAIN lastExc[1].stderr : lastExc[1].stderr[i].cased

\* C5: a failed backend init whose output mentions one of the three storage
\* RBAC markers (any letter case) is retried; terraform_init_remote runs the
\* command at most 8 times, every sleep lies within [2 s, 30 s], and a run
\* that succeeds at attempt k <= 8 returns after exactly k invocations.
C5_BoundedInitRetry ==
    policy = "init" =>
        /\ invocations <= 8
        /\ \A i \in DOMAIN sleeps : sleeps[i] >= 2 /\ sleeps[i] <= 30
        /\ returned => /\ raised = <<>>
                       /\ invocations = attempt /\ attempt <= 8
                       /\ Len(sleeps) = attempt - 1
        /\ (rpc = "done" /\ lastExc # <<>> /\ "rbac" \in Marks(lastExc[1])) =>
              invocations = 8 /\ Len(sleeps) = 7
        /\ retriedMarks # <<>> => "rbac" \in retriedMarks[1]

C5_Witness ==
    /\ policy = "init" /\ returned /\ invocations = 8
    /\ sleeps = <<2, 2, 4, 8, 16, 30, 30>>

\* C6: a failure that is not of the policy's target kind is never retried, at
\* whatever attempt it happens: no sleep follows it, the command is not run
\* again, and the caller gets that very CalledProcessError.
C6_NonTargetNotRetried ==
    /\ retriedMarks # <<>> =>
          IF policy = "init"
          THEN "rbac" \in retriedMarks[1]
          ELSE /\ "conflict" \in retriedMarks[1]
               /\ retriedMarks[1] \cap {"exclusion", "fatal"} = {}
    /\ (rpc = "done" /\ lastExc # <<>> /\ ~TargetKind(policy, lastExc[1])) =>
          /\ raised = lastExc
          /\ invocations = attempt
          /\ Len(sleeps) = invocations - 1

C6_Witness ==
    /\ rpc = "done" /\ lastExc # <<>> /\ ~TargetKind(policy, lastExc[1])
    /\ invocations = 3

\* The output reads as a retryable conflict: a conflict marker, no
\* exclusion marker and no fatal marker, in any letter case.
RetryableConflict(marks) ==
    "conflict" \in marks /\ "exclusion" \notin marks /\ "fatal" \notin marks

\* C25: a failed apply is treated as a retryable RequestConflict exactly when
\* its output has one of the four conflict markers, none of "response 400",
\* "invalidresource", "insufficientquota", and no fatal marker (any letter
\* case): only such a failure is followed by a sleep and another run, such a
\* failure ends the call only as the fifth one and then as a
\* RequestConflictError, and every other failure ends the call at once with
\* its own CalledProcessError.
C25_ConflictClassification ==
    policy = "apply" =>
        /\ retriedMarks # <<>> => RetryableConflict(retriedMarks[1])
        /\ (rpc = "done" /\ lastExc # <<>>) =>
              IF RetryableConflict(Marks(lastExc[1]))
              THEN /\ raised[1].type = "RequestConflictError"
                   /\ invocations = 5
              ELSE /\ raised = lastExc
                   /\ raised[1].type = "CalledProcessError"
                   /\ Len(sleeps) = invocations - 1

C25_Witness ==
    /\ policy = "apply" /\ rpc = "done" /\ lastExc # <<>>
    /\ Marks(lastExc[1]) = {"conflict", "exclusion"}
    /\ retriedMarks = <<{"conflict"}>>
    /\ invocations = 2
    /\ \E i \in DOMAIN lastExc[1].output : lastExc[1].output[i].cased

(***************************************************************************)
(* Claims about set_secret_with_retry (SpecSecret).                        *)
(***************************************************************************)
\* The failed run's output reads as a transient Key Vault authorization
\* failure (in any letter case).
VaultRbacKind(marks) ==
    "vault rbac" \in marks \/ {"forbidden", "keyvault"} \subseteq marks

\* C23: set_secret_with_retry runs the set command again only after a
\* failure that reads as a Key Vault authorization failure, at most 8 times
\* in total with every sleep within [2 s, 30 s]; after 8 such failures it
\* gives up; any other failure surfaces as that very CalledProcessError with
\* no sleep and no further run after it; and a run that succeeds at attempt
\* k ends the call after exactly k runs having created exactly one version
\* of the secret, the failed runs having created none.
C23_SecretWriteRetry ==
    policy = "secret" =>
        /\ invocations <= 8
        /\ \A i \in DOMAIN sleeps : sleeps[i] >= 2 /\ sleeps[i] <= 30
        /\ retriedMarks # <<>> => VaultRbacKind(retriedMarks[1])
        /\ (rpc = "done" /\ lastExc # <<>>) =>
              IF VaultRbacKind(Marks(lastExc[1]))
              THEN /\ invocations = 8 /\ Len(sleeps) = 7
                   /\ raised[1].type = "RbacPropagationError"
                   /\ raised[1].cause = lastExc
              ELSE /\ raised = lastExc
                   /\ invocations = attempt
                   /\ Len(sleeps) = invocations - 1
        /\ versions = (IF returned THEN 1 ELSE 0)
        /\ returned => /\ rpc = "done" /\ raised = <<>>
                       /\ invocations = attempt /\ attempt <= 8
                       /\ Len(sleeps) = attempt - 1

C23_Witness ==
    /\ policy = "secret" /\ returned /\ invocations = 3 /\ versions = 1
    /\ sleeps = <<2, 2>>
    /\ retriedMarks = <<{"forbidden", "keyvault"}>>

(***************************************************************************)
(* Claims about tfvars documents (SpecTfvars).                             *)
(***************************************************************************)
KeySet == {TfKeys[i] : i \in DOMAIN TfKeys}

C8_AtomicWrites ==
    observed # <<>> =>
        \/ observed[1] = (IF upc = "idle" THEN file ELSE old)
        \/ upc \in {"writing", "done"} /\ observed[1] = rendered

(***************************************************************************)
(* Claims about the renderer (SpecRender).                                 *)
(***************************************************************************)
Pairs(data) == {data[i] : i \in DOMAIN data}

\* C24: for every document made of booleans, numbers, strings, lists and
\* nested maps, loading the text _write_tfvars wrote succeeds and gives the
\* same keys with the same values as the document written.
C24_RenderRoundTrip ==
    reloaded # <<>> =>
        /\ reloaded[1].raised = ""
        /\ Pairs(reloaded[1].data) = Pairs(document)

\* A nested map with the key "cost center" was written and the file does
\* not load.
C24_Witness ==
    /\ reloaded # <<>> /\ reloaded[1].raised = "ParseError"
    /\ document = <<[key |-> TfKeys[1],
                     val |-> Dict(Entry1(<<"cost", "center">>, Str("ai")))]>>

\* The same, for the documents none of whose nested maps has a key of
\* several words.
C24_RoundTripOfIdentifierKeys ==
    (reloaded # <<>> /\ Parses(_render_tfvars_local(document))) =>
        /\ reloaded[1].raised = ""
        /\ Pairs(reloaded[1].data) = Pairs(document)

AnswersTo(inst, target) ==
    \E field \in {inst.id, inst.name, inst.endpoint} :
        field # <<>> /\ field[1].s = target.s

C9_OptionalStageNeverAborts == outcome # "aborted"

(***************************************************************************)
(* Claims about ensure_tfvars (SpecEnsure).                                *)
(***************************************************************************)
KeysOf(data) == {data[i].key : i \in DOMAIN data}

\* The documents of a completed call: the target before it (CurrentDoc), the
\* example it picked (ExampleDoc), the target after it (PersistedDoc).
Called == ensured # <<>>
Returned == Called /\ ensured[1].raised = ""
HadTarget == ensured[1].before[Target] # <<>>
TargetParsed == HadTarget /\ Parses(ensured[1].before[Target][1])
HadExample == ensured[1].example # "None"
ExampleParsed ==
    HadExample /\ Parses(ensured[1].before[ensured[1].example][1])
CurrentDoc == load_tfvars(ensured[1].before[Target][1])
ExampleDoc == load_tfvars(ensured[1].before[ensured[1].example][1])
PersistedDoc == load_tfvars(fs[Target][1])

IdentityForced(P) ==
    /\ IdentityKeys \subseteq KeysOf(P)
    /\ Get(P, "subscription_id") = Str(subscription_id)
    /\ Get(P, "tenant_id") = Str(tenant_id)
    /\ Get(P, "environment_code") = Str(env)

ExactlyOneCandidate ==
    Cardinality({i \in DOMAIN Candidates :
                    ensured[1].before[Candidates[i]] # <<>>}) = 1

\* C12: when the target is missing and exactly one example candidate exists
\* (a tfvars document), ensure_tfvars returns the target path and the
\* persisted document has the example's keys united with the three identity
\* keys, the identity keys holding the supplied subscription id, tenant id
\* and env, every other key holding the example's value.
C12_SeedFromExample ==
    (Called /\ ~HadTarget /\ ExactlyOneCandidate /\ ExampleParsed) =>
        /\ ensured[1].returned = <<Target>>
        /\ fs[Target] # <<>> /\ Parses(fs[Target][1])
        /\ KeysOf(PersistedDoc) = KeysOf(ExampleDoc) \cup IdentityKeys
        /\ IdentityForced(PersistedDoc)
        /\ \A key \in KeysOf(ExampleDoc) \ IdentityKeys :
              Get(PersistedDoc, key) = Get(ExampleDoc, key)

C12_Witness ==
    /\ Returned /\ ~HadTarget /\ ExactlyOneCandidate
    /\ ensured[1].example = Candidates[2]
    /\ KeysOf(PersistedDoc) = {"secret_names"} \cup IdentityKeys
    /\ Get(PersistedDoc, "secret_names") = Str("acr1")
    /\ Get(PersistedDoc, "environment_code") = Str("dev")

\* C13: when the target exists and parses and an example is present, after
\* ensure_tfvars every key of the current document other than the identity
\* keys has its current value in the persisted document, also where the
\* example defines it differently, and every key only the example has is
\* there with the example's value.
C13_BackfillWithoutOverwrite ==
    (Called /\ TargetParsed /\ HadExample) =>
        /\ fs[Target] # <<>> /\ Parses(fs[Target][1])
        /\ \A key \in KeysOf(CurrentDoc) \ IdentityKeys :
              /\ HasKey(PersistedDoc, key)
              /\ Get(PersistedDoc, key) = Get(CurrentDoc, key)
        /\ (Returned /\ ExampleParsed) =>
              \A key \in (KeysOf(ExampleDoc) \ KeysOf(CurrentDoc)) \ IdentityKeys :
                  /\ HasKey(PersistedDoc, key)
                  /\ Get(PersistedDoc, key) = Get(ExampleDoc, key)
        /\ ExampleParsed => Returned

C13_Witness ==
    /\ Returned /\ TargetParsed /\ ExampleParsed
    /\ KeysOf(CurrentDoc) = {"platform_acr_name"}
    /\ Get(CurrentDoc, "platform_acr_name") = Str("1")
    /\ HasKey(ExampleDoc, "platform_acr_name")
    /\ Get(ExampleDoc, "platform_acr_name") = Num("1")
    /\ HasKey(ExampleDoc, "secret_names")
    /\ Get(PersistedDoc, "platform_acr_name") = Str("1")
    /\ Get(PersistedDoc, "secret_names") = Get(ExampleDoc, "secret_names")

\* C14: after every ensure_tfvars that returned, whichever branch it took
\* and whatever the target and the example held, the persisted document has
\* subscription_id, tenant_id and environment_code equal to the arguments,
\* and every other key the target had before keeps the value it had.
C14_ForcedIdentityKeys ==
    Returned =>
        /\ fs[Target] # <<>> /\ Parses(fs[Target][1])
        /\ IdentityForced(PersistedDoc)
        /\ TargetParsed =>
              \A key \in KeysOf(CurrentDoc) \ IdentityKeys :
                  /\ HasKey(PersistedDoc, key)
                  /\ Get(PersistedDoc, key) = Get(CurrentDoc, key)
        /\ \A key \in KeysOf(PersistedDoc) \ IdentityKeys :
              \/ TargetParsed /\ HasKey(CurrentDoc, key)
              \/ /\ ExampleParsed /\ HasKey(ExampleDoc, key)
                 /\ Get(PersistedDoc, key) = Get(ExampleDoc, key)

C14_Witness ==
    /\ Returned /\ TargetParsed /\ ~HadExample
    /\ subscription_id = "sub-1" /\ env = "dev"
    /\ HasKey(CurrentDoc, "subscription_id")
    /\ Get(CurrentDoc, "subscription_id") = Str("sub-0")
    /\ Get(CurrentDoc, "environment_code") = Str("qa")
    /\ HasKey(CurrentDoc, "secret_names")
    /\ Get(PersistedDoc, "subscription_id") = Str("sub-1")

\* What a call on a target that does not parse leaves when it degrades: the
\* example's keys (none without an example) and the identity keys.
Regenerated ==
    /\ ensured[1].raised = ""
    /\ ensured[1].returned = <<Target>>
    /\ fs[Target] # <<>> /\ Parses(fs[Target][1])
    /\ KeysOf(PersistedDoc) =
          (IF ExampleParsed THEN KeysOf(ExampleDoc) ELSE {}) \cup IdentityKeys
    /\ IdentityForced(PersistedDoc)
    /\ ExampleParsed =>
          \A key \in KeysOf(ExampleDoc) \ IdentityKeys :
              Get(PersistedDoc, key) = Get(ExampleDoc, key)

\* C15 as stated: when the target exists and cannot be parsed, ensure_tfvars
\* does not raise, and writes the example's keys (none without an example)
\* and the identity keys.
C15_CorruptNeverRaises ==
    (Called /\ HadTarget /\ ~TargetParsed) => Regenerated

\* C15 amended: when the target exists and cannot be parsed, ensure_tfvars
\* regenerates it as above if no example exists or the example parses; if
\* the example it picked cannot be parsed either, the call raises the parse
\* error and leaves the directory as it was.
C15_CorruptDegrades ==
    (Called /\ HadTarget /\ ~TargetParsed) =>
        IF ~HadExample \/ ExampleParsed
        THEN Regenerated
        ELSE /\ ensured[1].raised = "ParseError"
             /\ ensured[1].returned = <<>>
             /\ fs = ensured[1].before

C15_Witness ==
    /\ Returned /\ HadTarget /\ ~TargetParsed /\ ExampleParsed
    /\ ensured[1].example = Candidates[1]
    /\ KeysOf(ExampleDoc) = {"platform_acr_name", "environment_code"}
    /\ KeysOf(PersistedDoc) = {"platform_acr_name"} \cup IdentityKeys


(***************************************************************************)
(* Claims about the stage deployments (SpecStage).                         *)
(***************************************************************************)
NothingToSeedFrom ==
    ensured # <<>> /\ \A name \in StackFiles : ensured[1].before[name] = <<>>

\* C16: when neither the target nor an example candidate exists,
\* ensure_tfvars raises an error naming the stack directory and creates no
\* target, and the deployment that called it ends there: it runs no backend
\* init and no apply of its stack, and no step at all after the failed call.
C16_MissingConfigFailsFast ==
    NothingToSeedFrom =>
        /\ ensured[1].raised = "FileNotFoundError"
        /\ ensured[1].names = StackDir
        /\ fs = ensured[1].before
        /\ status = "raised"
        /\ stageErr = <<[type |-> "FileNotFoundError", names |-> StackDir]>>
        /\ trace[Len(trace)] = [op |-> "ensure_tfvars", of |-> stage, ok |-> FALSE]
        /\ \A i \in DOMAIN trace :
              trace[i].op \notin BackendInits \cup {"terraform_apply"}

C16_Witness ==
    /\ NothingToSeedFrom
    /\ stage = "10-platform" /\ status = "raised"
    /\ Len(trace) = 2 /\ trace[1].ok

\* The keys with which the deployment of stack S initialises S's backend.
InitKeys(S) ==
    {state_key(StatePrefix, k.filename) :
        k \in {k \in UNION {Program(S)[i].keys : i \in DOMAIN Program(S)} :
                  k.use = "init backend" /\ k.of = S}}

\* C17: every state key derived for a stack S, by whichever site and for
\* whichever use (reading S's state, a tfvars entry, an exported TF_VAR
\* binding, the secret reconciler's read), is state_key(state_prefix, S),
\* and that is the one key with which the deployment of S initialises S's
\* backend.
C17_StateKeyAgreement ==
    /\ \A u \in keyUses :
          /\ u.key = state_key(u.prefix, u.of)
          /\ InitKeys(u.of) = {u.key}
    /\ \A u, v \in keyUses : (u.of = v.of /\ u.prefix = v.prefix) => u.key = v.key
    /\ (stage = "15-foundry" /\ built # <<>> /\ built[1].provisioned) =>
          InitKeys("15-foundry") = {built[1].state_blob_key}

C17_Witness ==
    /\ stage = "20-workload" /\ status = "returned"
    /\ StatePrefix = <<"e", "/", "e">>
    /\ \E u, v, w \in keyUses :
          /\ u.use = "tfvars openai_state_blob_key"
          /\ v.use = "TF_VAR_openai_state_blob_key"
          /\ w.use = "read state" /\ w.of = "15-foundry"
          /\ u.key = <<"e", "/", "e", "/", "15-foundry", ".tfstate">>
          /\ v.key = u.key /\ w.key = u.key
    /\ \E u \in keyUses : u.use = "init backend" /\ u.of = "20-workload"

\* The prefix without its trailing "/"s.
TrimTrailingSlash(text) ==
    LET ends == {i \in 0..Len(text) : i = 0 \/ text[i] # "/"}
    IN  SubSeq(text, 1, CHOOSE i \in ends : \A j \in ends : j <= i)

\* C18 as stated: state_key(p, x) is trimTrailingSlash(p) + "/" + x +
\* ".tfstate" when p is non-empty and x + ".tfstate" when p is empty.
C18_StateKeyByPrefix ==
    \A u \in keyUses :
        u.key = IF u.prefix # <<>>
                THEN TrimTrailingSlash(u.prefix) \o <<"/", u.filename, ".tfstate">>
                ELSE <<u.filename, ".tfstate">>

\* C18 amended: with t the prefix p without all its trailing "/"s,
\* state_key(p, x) is t + "/" + x + ".tfstate" when t is non-empty and
\* x + ".tfstate" when t is empty, which it is for p = "" and for a p made
\* of "/"s only.
C18_StateKeyByTrimmedPrefix ==
    \A u \in keyUses :
        LET t == TrimTrailingSlash(u.prefix)
        IN  /\ t # <<>> => u.key = t \o <<"/", u.filename, ".tfstate">>
            /\ t = <<>> => u.key = <<u.filename, ".tfstate">>
            /\ \A i \in DOMAIN t : i = Len(t) => t[i] # "/"

C18_Witness ==
    /\ StatePrefix = <<"e", "/", "/">>
    /\ \E u \in keyUses :
          /\ u.filename = "10-platform"
          /\ u.key = <<"e", "/", "10-platform", ".tfstate">>


\* The accessor calls of the state the stage builds from its outputs.
FieldsOf(st) == IF st = "00-bootstrap" THEN BootstrapFields ELSE FoundationFields

\* The state builder has run on the outputs read.
BuilderRan ==
    /\ trace # <<>> /\ trace[Len(trace)].op \in StateBuilders
    /\ outputs # <<>>

Missing(key) == outputs[1][key] \in {Absent, None}

\* C19: the required accessor gives the output's value as text when the
\* output is present and not null, and otherwise raises an error naming the
\* output; the optional accessor gives the value as text, or "" when the
\* output is absent or null, and never raises; so a BootstrapState or
\* FoundationState is built exactly when none of its required outputs is
\* missing, and the error names the first missing one.
C19_TypedOutputAccessors ==
    BuilderRan =>
        LET fields == FieldsOf(stage)
            lacking == {i \in DOMAIN fields :
                           fields[i].required /\ Missing(fields[i].key)}
        IN  IF lacking # {}
            THEN /\ built = <<>>
                 /\ status = "raised"
                 /\ ~trace[Len(trace)].ok
                 /\ stageErr =
                       <<[type |-> "KeyError",
                          names |-> fields[CHOOSE i \in lacking :
                                             \A j \in lacking : i <= j].key]>>
            ELSE /\ built # <<>>
                 /\ status = "returned" /\ stageErr = <<>>
                 /\ \A i \in DOMAIN fields :
                       LET text == IF Missing(fields[i].key) THEN <<>>
                                   ELSE outputs[1][fields[i].key].v
                       IN  built[1][fields[i].field] =
                              IF fields[i].field = "state_prefix"
                              THEN state_prefix_from_blob(text) ELSE text

C19_Witness ==
    /\ BuilderRan /\ stage = "10-platform" /\ status = "returned"
    /\ outputs[1].location = Num("1")
    /\ outputs[1].key_vault_name = Absent
    /\ outputs[1].aca_managed_identity_id = None
    /\ built[1].location = <<"1">>
    /\ built[1].key_vault_name = <<>>
    /\ built[1].aca_identity_id = <<>>
    /\ built[1].acr_name = <<"v1">>

\* The positions of the trace where one of the operations ran on the stack
\* of the stage and returned.
Done(ops) ==
    {i \in DOMAIN trace : trace[i].op \in ops /\ trace[i].of = stage /\ trace[i].ok}

Exports == {"export_core_tf_env", "export_foundation_tf_env"}
KeyDerivations == {"state_key", "backend_state_path"}
OutputReads == {"terraform_output", "_emit_toolkit_outputs", "seed_openai_secrets"}

Before(A, B) == \A j \in B : \E i \in A : i < j

\* After position from, some step of each kind from the k-th on, in the
\* order of the kinds.
RECURSIVE InOrderFrom(_, _, _)
InOrderFrom(kinds, k, from) ==
    IF k > Len(kinds) THEN TRUE
    ELSE LET later == {i \in Done(kinds[k]) : i > from}
         IN  /\ later # {}
             /\ InOrderFrom(kinds, k + 1,
                            CHOOSE i \in later : \A j \in later : i <= j)

InOrder(kinds) == InOrderFrom(kinds, 1, 0)

Deployed ==
    /\ status = "returned" /\ trace # <<>>
    /\ stage \in {"00-bootstrap", "05-observability", "10-platform",
                  "15-foundry", "20-workload"}

\* C20 as stated: every stage deployment runs ensure tfvars, export context
\* bindings, derive state key, backend init, apply and read outputs, in
\* that order.
C20_AllStepsInOrder ==
    Deployed =>
        InOrder(<<{"ensure_tfvars"}, Exports, KeyDerivations, BackendInits,
                  {"terraform_apply"}, OutputReads>>)

\* C20 amended: a deployment that returns has run ensure tfvars, export
\* context bindings, derive state key, backend init and apply in that
\* order; at any moment an apply of the stage's stack has been started only
\* after a backend init of that stack returned, which was started only
\* after the state key was derived, bindings exported and ensure_tfvars
\* returned; the stage's outputs are read, and in the foundry stage the
\* secret reconciler is run, only after the apply returned.  bootstrap and
\* platform read their outputs, foundry reads them in the reconciler,
\* workload only under deploy_e2e, observability never.
C20_StepOrder ==
    LET at(ops) == {i \in DOMAIN trace : trace[i].op \in ops /\ trace[i].of = stage}
    IN  /\ Deployed =>
              InOrder(<<{"ensure_tfvars"}, Exports, KeyDerivations, BackendInits,
                        {"terraform_apply"}>>)
        /\ Before(Done(BackendInits), at({"terraform_apply"}))
        /\ Before(Done(KeyDerivations), at(BackendInits))
        /\ Before(Done(Exports), at(KeyDerivations))
        /\ Before(Done({"ensure_tfvars"}), at(Exports))
        /\ Before(Done({"terraform_apply"}), at(OutputReads))
        /\ Deployed =>
              (Done(OutputReads) # {} <=>
                  \/ stage \in {"00-bootstrap", "10-platform", "15-foundry"}
                  \/ stage = "20-workload" /\ deploy_e2e)

C20_Witness ==
    /\ stage = "15-foundry" /\ status = "returned"
    /\ Len(trace) = 9
    /\ trace[7] = [op |-> "terraform_init_remote", of |-> "15-foundry", ok |-> TRUE]
    /\ trace[8] = [op |-> "terraform_apply", of |-> "15-foundry", ok |-> TRUE]
    /\ trace[9] = [op |-> "seed_openai_secrets", of |-> "15-foundry", ok |-> TRUE]


====
